---- MODULE Spec2Model ----
(***************************************************************************)
(* Verification model of modern-cpp-features/runnable:                     *)
(*   - utils.hpp : the assertion harness (ASSERT, ASSERT_EQ, ASSERT_NE,    *)
(*                 EXPECT_THROW) and the example runner (RUN_EXAMPLE);     *)
(*   - cpp20.cpp : the coroutine-backed Generator<T> and range_gen;        *)
(*   - the main() of each demonstration program.                           *)
(*                                                                         *)
(* Two state machines share the module.  Spec is one run of a              *)
(* demonstration program (main, RUN_EXAMPLE, the harness macros inside an  *)
(* example body).  GenSpec is a client driving Generator objects.          *)
(***************************************************************************)
EXTENDS Integers, Sequences, FiniteSets, TLC

VARIABLES
    prog,        \* which demonstration program is running
    pc,          \* position of main / RUN_EXAMPLE
    idx,         \* index in main of the RUN_EXAMPLE being expanded
    stmt,        \* number of the next statement of the running example body
    inflight,    \* the exception propagating out of func(), NoSignal if none
    out,         \* what has been written to std::cout, line by line
    status,      \* per example: its state in the runner's state machine
    invoked,     \* per example: how many times func() has been called
    raised,      \* per example: the signal its own body raised (history)
    lastStmt,    \* the statement the running example executed last, with its
                 \* result (history; NoStmt between examples)
    exitStatus,  \* how the process ended
    frames,      \* coroutine frames on the heap, by frame id
    gens,        \* Generator objects, by name
    lastCall,    \* the Generator operation executed last, with its result (history)
    results,     \* per frame: the results next() has returned for it (history)
    ncalls,      \* number of Generator operations executed (bounds the exploration)
    demo         \* the locals of the demonstration function under study

runnerVars == <<prog, pc, idx, stmt, inflight, out, status, invoked, raised,
                lastStmt, exitStatus>>
genVars == <<frames, gens, lastCall, results, ncalls>>
vars == <<prog, pc, idx, stmt, inflight, out, status, invoked, raised,
          lastStmt, exitStatus, frames, gens, lastCall, results, ncalls, demo>>

(***************************************************************************)
(* Bounds of the exploration.                                              *)
(***************************************************************************)
NumExamples == 3   \* examples of each main that are run
MaxStmts == 2      \* harness statements executed by one example body

Min(a, b) == IF a < b THEN a ELSE b

(***************************************************************************)
(* The demonstration programs and the examples their main() registers, in  *)
(* main's order (of the longer lists, the first twelve).                   *)
(***************************************************************************)
Programs == {"cpp11", "cpp14", "cpp17", "cpp20"}

Cpp11Examples ==
    <<"test_std_move", "test_move_ctor_assign_op", "test_rvalue_references",
      "test_forwarding_references", "test_std_forward", "test_variadic_templates",
      "test_initializer_lists", "test_static_asserts", "test_auto_type",
      "test_lambda_expressions", "test_decltype", "test_type_aliases">>

Cpp14Examples ==
    <<"test_binary_literals", "test_generic_lambda",
      "test_lambda_capture_initializers", "test_return_type_deduction",
      "test_decltype_auto", "test_constexpr_funcs", "test_variable_templates",
      "test_deprecated_attribute", "test_more_literals",
      "test_std_integer_sequence", "test_std_make_unique">>

Cpp17Examples ==
    <<"test_folding_exprs", "test_constexpr_lambdas", "test_inline_variables",
      "test_nested_namespaces", "test_structured_bindings", "test_if_initializer",
      "test_switch_initializer", "test_if_constexpr", "test_more_attributes",
      "test_has_include", "test_std_variant", "test_std_any">>

Cpp20Examples ==
    <<"test_coroutines", "test_concepts_basic", "test_concepts_exprs",
      "test_range_based_for_initializer", "test_likely_unlikely",
      "test_explicit_ctor", "test_consteval", "test_std_span",
      "test_bit_helpers", "test_math_constants",
      "test_std_is_constant_evaluated", "test_starts_ends_with">>

Examples(p) ==
    CASE p = "cpp11" -> Cpp11Examples
      [] p = "cpp14" -> Cpp14Examples
      [] p = "cpp17" -> Cpp17Examples
      [] OTHER -> Cpp20Examples

\* The examples of program p that the exploration runs: a prefix of main's list.
NumRun(p) == Min(Len(Examples(p)), NumExamples)
ExampleIds(p) == 1..NumRun(p)

\* The text of the banner line main() prints first.
Banner(p) ==
    CASE p = "cpp11" -> "C++11 features runnable tests:"
      [] p = "cpp14" -> "C++11 features runnable tests:"
      [] p = "cpp17" -> "C++17 features runnable tests:"
      [] OTHER -> "C++20 features runnable tests:"

\* __FILE__ inside the examples of program p (the Makefile compiles cppNN.cpp).
File(p) ==
    CASE p = "cpp11" -> "cpp11.cpp"
      [] p = "cpp14" -> "cpp14.cpp"
      [] p = "cpp17" -> "cpp17.cpp"
      [] OTHER -> "cpp20.cpp"

\* __LINE__ of statement s of example i: every statement has a line of its own.
Line(i, s) == i * (MaxStmts + 2) + s

(***************************************************************************)
(* Failure signals (utils.hpp).  A signal is what a throw-expression       *)
(* raises; message is what() as the constructor built it.                  *)
(***************************************************************************)
\* ss << line: an int written to a stream, as its decimal digits.
RECURSIVE Digits(_)
Digits(n) == IF n < 10 THEN <<n>> ELSE Append(Digits(n \div 10), n % 10)

NoText == <<"", "", "", <<>>>>
NoSignal == [kind |-> "none", file |-> "", line |-> 0, message |-> NoText]

AssertionFailure(file, line) ==
    [kind |-> "AssertionFailure", file |-> file, line |-> line,
     message |-> <<"condition assertion failed @ ", file, ":", Digits(line)>>]

ThrowingFailure(file, line) ==
    [kind |-> "ThrowingFailure", file |-> file, line |-> line,
     message |-> <<"no exception thrown as expected @ ", file, ":",
                   Digits(line)>>]

\* what() of a harness failure signal: message.c_str().
What_NoLine(e) == [e.message EXCEPT ![4] = <<>>]
What(e) == e.message

\* Faults an example can raise that are no harness signal:
\* std::runtime_error (a std::exception) and a thrown non-exception value.
RuntimeError ==
    [kind |-> "runtime_error", file |-> "", line |-> 0,
     message |-> <<"something", "", "", <<>>>>]
NonException ==
    [kind |-> "non_exception", file |-> "", line |-> 0, message |-> NoText]
OtherFaults == {RuntimeError, NonException}

\* if (!(cond)) throw AssertionFailure(__FILE__, __LINE__);
\* The value is the signal the macro raises, NoSignal when it falls through.
ASSERT_Inverted(cond, file, line) ==
    IF cond THEN AssertionFailure(file, line) ELSE NoSignal

ASSERT(cond, file, line) ==
    IF ~cond THEN AssertionFailure(file, line) ELSE NoSignal

\* ASSERT_EQ(a, b) is ASSERT((a) == (b)); ASSERT_NE(a, b) is ASSERT((a) != (b)).
ASSERT_EQ_Unequal(a, b, file, line) == ASSERT(a # b, file, line)
ASSERT_EQ(a, b, file, line) == ASSERT(a = b, file, line)
ASSERT_NE(a, b, file, line) == ASSERT(a # b, file, line)

\* try { func(); } catch (...) { thrown = true; }
\* if (!thrown) throw ThrowingFailure(__FILE__, __LINE__);
\* opSignal is what func() raised (NoSignal when it returned).
EXPECT_THROW_StdOnly(opSignal, file, line) ==
    LET thrown == opSignal.kind \notin {"none", "non_exception"}
    IN  IF opSignal.kind = "non_exception" THEN opSignal
        ELSE IF ~thrown THEN ThrowingFailure(file, line) ELSE NoSignal

EXPECT_THROW(opSignal, file, line) ==
    LET thrown == opSignal.kind # "none"
    IN  IF ~thrown THEN ThrowingFailure(file, line) ELSE NoSignal

(***************************************************************************)
(* Example bodies.  A body is a sequence of statements, chosen as the      *)
(* example runs: a harness macro or a throw of some other fault.  (A body   *)
(* may also enter a loop that never ends: see ExecLoop.)                   *)
(***************************************************************************)
\* What the operation handed to EXPECT_THROW may do: return, raise a runtime
\* error or a non-exception value, or let a nested harness failure escape.
OpOutcomes(file, line) ==
    {NoSignal, RuntimeError, NonException,
     AssertionFailure(file, line), ThrowingFailure(file, line)}

Operands == {1, 2}

Statements(file, line) ==
    [kind : {"ASSERT"}, cond : BOOLEAN, a : {0}, b : {0}, op : {NoSignal}]
    \cup [kind : {"ASSERT_EQ", "ASSERT_NE"}, cond : {TRUE},
          a : {1}, b : Operands, op : {NoSignal}]
    \cup [kind : {"EXPECT_THROW"}, cond : {TRUE}, a : {0}, b : {0},
          op : OpOutcomes(file, line)]
    \cup [kind : {"throw"}, cond : {TRUE}, a : {0}, b : {0}, op : OtherFaults]

NoStmt ==
    [ex |-> 0, no |-> 0, kind |-> "none", cond |-> TRUE, a |-> 0, b |-> 0,
     op |-> NoSignal, result |-> NoSignal]

\* The signal statement s raises when executed at file:line.
Exec(s, file, line) ==
    CASE s.kind = "ASSERT" -> ASSERT(s.cond, file, line)
      [] s.kind = "ASSERT_EQ" -> ASSERT_EQ(s.a, s.b, file, line)
      [] s.kind = "ASSERT_NE" -> ASSERT_NE(s.a, s.b, file, line)
      [] s.kind = "EXPECT_THROW" -> EXPECT_THROW(s.op, file, line)
      [] s.kind = "throw" -> s.op
      [] OTHER -> NoSignal

(***************************************************************************)
(* Lines written to std::cout.                                             *)
(***************************************************************************)
BannerLine(p) == [tag |-> "banner", name |-> Banner(p), what |-> NoText]
\* "  " << #func << "... "
LabelLine(name) == [tag |-> "label", name |-> name, what |-> NoText]
OkLine == [tag |-> "OK", name |-> "", what |-> NoText]
FailedLine == [tag |-> "FAILED", name |-> "", what |-> NoText]
\* "    " << e.what()
MessageLine(e) == [tag |-> "message", name |-> "", what |-> What(e)]

(***************************************************************************)
(* RUN_EXAMPLE: which handler of the try statement takes the signal that   *)
(* left func().                                                            *)
(***************************************************************************)
CatchClause_NoThrowingHandler(e) ==
    CASE e.kind = "none" -> "completed"
      [] e.kind = "AssertionFailure" -> "report"
      [] OTHER -> "rethrow"

CatchClause_CatchAll(e) ==
    CASE e.kind = "none" -> "completed"
      [] OTHER -> "report"

CatchClause(e) ==
    CASE e.kind = "none" -> "completed"
      [] e.kind = "AssertionFailure" -> "report"
      [] e.kind = "ThrowingFailure" -> "report"
      [] OTHER -> "rethrow"

\* Where control is after a statement of the body: a throw-expression leaves
\* func() for the handlers of RUN_EXAMPLE, anything else falls through to the
\* next statement.
AfterStmt_Continue(sig) == "body"
AfterStmt(sig) == IF sig = NoSignal THEN "body" ELSE "tryexit"

\* main() expands RUN_EXAMPLE once per example, one after the other.
NextExample_Repeat(i) == i
NextExample_Skip(i) == i + 2
NextExample(i) == i + 1

\* return 0;  the value main returns, st being how the examples ended.
MainResult_FailuresCount(st) ==
    IF \E i \in DOMAIN st : st[i] = "failed-reported" THEN "1" ELSE "0"
MainResult(st) == "0"

\* The exception object is destroyed when its handler is left.
Consume_Keep(e) == e
Consume(e) == NoSignal

(***************************************************************************)
(* Generator<T> (cpp20.cpp).  A coroutine frame is the heap state of one   *)
(* call of range_gen; a Generator object holds a handle to a frame, or the *)
(* null handle.                                                            *)
(***************************************************************************)
MaxFrames == 2     \* calls of range_gen
MaxOps == 5        \* Generator operations of one behaviour
MaxEnd == 2        \* range_gen arguments are drawn from 0..MaxEnd

GenNames == {"g", "g2"}
NullHandle == 0

\* std::optional<T>
None == [has |-> FALSE, v |-> 0]
Some(x) == [has |-> TRUE, v |-> x]

\* The frame of range_gen(start, end), suspended at initial_suspend:
\* nothing of the body has run, promise.state holds no value.
NewFrame_Eager(start, end) ==
    [start |-> start + 1, end |-> end, first |-> start, susp |-> "yield",
     state |-> Some(start), yields |-> 1, destroyed |-> 0]

NewFrame(start, end) ==
    [start |-> start, end |-> end, first |-> start, susp |-> "initial",
     state |-> None, yields |-> 0, destroyed |-> 0]

\* handle.done(): the coroutine is suspended at its final suspend point.
Done(fr) == fr.susp = "final"

\* handle.resume() of a coroutine suspended at initial_suspend or at co_yield:
\* range_gen runs to its next co_yield (yield_value stores the value in
\* promise.state) or off its end (final_suspend).
Resume_YieldBeforeTest(fr) ==
    [fr EXCEPT !.state = Some(fr.start), !.start = fr.start + 1,
               !.susp = "yield", !.yields = fr.yields + 1]

Resume(fr) ==
    IF fr.start < fr.end
      THEN [fr EXCEPT !.state = Some(fr.start), !.start = fr.start + 1,
                      !.susp = "yield", !.yields = fr.yields + 1]
      ELSE [fr EXCEPT !.susp = "final"]

\* auto state = handle.promise().state; if (handle.done()) state.reset();
NextResult_NoReset(fr) == fr.state

NextResult(fr) == IF Done(fr) THEN None ELSE fr.state

\* handle(g.handle)  /  handle = g.handle;  what a move gives its target.
TakenHandle_Null(h) == NullHandle
TakenHandle(h) == h

\* if (this == &g) return *this;  whether the source of a move assignment is
\* its target.
SameObject_Never(dst, src) == FALSE
SameObject(dst, src) == dst = src

\* g.handle = {};  what a move leaves in its source.
MovedFromHandle_Kept(h) == h
MovedFromHandle(h) == NullHandle

\* handle.resume() of a coroutine suspended at its final suspend point is
\* undefined behaviour: the call may fault, or return having done nothing.
UBOutcomes == {"fault", "noop"}

NoCall ==
    [op |-> "none", gen |-> "", src |-> "", handle |-> NullHandle,
     movedFrom |-> FALSE, wasDone |-> FALSE, produced |-> 0,
     resumed |-> FALSE, fault |-> FALSE, result |-> None]

GenStart ==
    /\ frames = <<>>
    /\ gens = [n \in GenNames |->
                 [alive |-> FALSE, handle |-> NullHandle, movedFrom |-> FALSE,
                  produced |-> 0]]
    /\ lastCall = NoCall
    /\ results = <<>>
    /\ ncalls = 0


(***************************************************************************)
(* One run of a demonstration program: main() and RUN_EXAMPLE.             *)
(***************************************************************************)
RunnerInit ==
    /\ pc = "banner"
    /\ idx = 1
    /\ stmt = 1
    /\ inflight = NoSignal
    /\ out = <<>>
    /\ status = [i \in ExampleIds(prog) |-> "not-started"]
    /\ invoked = [i \in ExampleIds(prog) |-> 0]
    /\ raised = [i \in ExampleIds(prog) |-> NoSignal]
    /\ lastStmt = NoStmt
    /\ exitStatus = "running"

\* No demonstration function is under study.
NoDemo == [pc |-> "none"]

Init ==
    /\ prog \in Programs
    /\ RunnerInit
    /\ GenStart
    /\ demo = NoDemo

\* std::cout << "C++NN features runnable tests:" << std::endl;
MainBanner ==
    /\ pc = "banner"
    /\ out' = Append(out, BannerLine(prog))
    /\ pc' = "label"
    /\ UNCHANGED <<prog, idx, stmt, inflight, status, invoked, raised, lastStmt,
                   exitStatus>>
    /\ UNCHANGED genVars
    /\ UNCHANGED demo

\* RUN_EXAMPLE, first statement of the try block: the label is written.
RunLabel ==
    /\ pc = "label"
    /\ idx \in ExampleIds(prog)
    /\ out' = Append(out, LabelLine(Examples(prog)[idx]))
    /\ pc' = "call"
    /\ UNCHANGED <<prog, idx, stmt, inflight, status, invoked, raised, lastStmt,
                   exitStatus>>
    /\ UNCHANGED genVars
    /\ UNCHANGED demo

\* RUN_EXAMPLE, second statement of the try block: func() is entered.
RunCall ==
    /\ pc = "call"
    /\ status' = [status EXCEPT ![idx] = "running"]
    /\ invoked' = [invoked EXCEPT ![idx] = @ + 1]
    /\ stmt' = 1
    /\ pc' = "body"
    /\ UNCHANGED <<prog, idx, inflight, out, raised, lastStmt, exitStatus>>
    /\ UNCHANGED genVars
    /\ UNCHANGED demo

\* The example body executes its next statement.  A statement that raises
\* leaves func() at once, the signal in flight towards the handlers.
ExecStmt ==
    /\ pc = "body"
    /\ stmt <= MaxStmts
    /\ \E s \in Statements(File(prog), Line(idx, stmt)) :
         LET sig == Exec(s, File(prog), Line(idx, stmt))
         IN  /\ lastStmt' = [ex |-> idx, no |-> stmt, kind |-> s.kind,
                             cond |-> s.cond, a |-> s.a, b |-> s.b, op |-> s.op,
                             result |-> sig]
             /\ IF sig = NoSignal
                  THEN /\ stmt' = stmt + 1
                       /\ UNCHANGED <<inflight, raised>>
                  ELSE /\ inflight' = sig
                       /\ raised' = [raised EXCEPT ![idx] = sig]
                       /\ UNCHANGED stmt
             /\ pc' = AfterStmt(sig)
    /\ UNCHANGED <<prog, idx, out, status, invoked, exitStatus>>
    /\ UNCHANGED genVars
    /\ UNCHANGED demo

\* The example body enters a loop that never ends: func() does not return.
ExecLoop ==
    /\ pc = "body"
    /\ stmt <= MaxStmts
    /\ lastStmt' = [NoStmt EXCEPT !.ex = idx, !.no = stmt, !.kind = "loop"]
    /\ pc' = "hung"
    /\ UNCHANGED <<prog, idx, stmt, inflight, out, status, invoked, raised,
                   exitStatus>>
    /\ UNCHANGED genVars
    /\ UNCHANGED demo

\* The example body reaches its end: func() returns.
FuncReturn ==
    /\ pc = "body"
    /\ pc' = "tryexit"
    /\ UNCHANGED <<prog, idx, stmt, inflight, out, status, invoked, raised,
                   lastStmt, exitStatus>>
    /\ UNCHANGED genVars
    /\ UNCHANGED demo

\* func() completed: std::cout << "OK" << std::endl; and on to the next
\* RUN_EXAMPLE of main.
RunOk ==
    /\ pc = "tryexit"
    /\ CatchClause(inflight) = "completed"
    /\ out' = Append(out, OkLine)
    /\ status' = [status EXCEPT ![idx] = "passed"]
    /\ idx' = NextExample(idx)
    /\ pc' = "label"
    /\ lastStmt' = NoStmt
    /\ UNCHANGED <<prog, stmt, inflight, invoked, raised, exitStatus>>
    /\ UNCHANGED genVars
    /\ UNCHANGED demo

\* catch (const AssertionFailure& e) / catch (const ThrowingFailure& e):
\* "FAILED", then the indented message; the exception ends with the handler.
RunCatch ==
    /\ pc = "tryexit"
    /\ CatchClause(inflight) = "report"
    /\ out' = out \o <<FailedLine, MessageLine(inflight)>>
    /\ inflight' = Consume(inflight)
    /\ status' = [status EXCEPT ![idx] = "failed-reported"]
    /\ idx' = NextExample(idx)
    /\ pc' = "label"
    /\ lastStmt' = NoStmt
    /\ UNCHANGED <<prog, stmt, invoked, raised, exitStatus>>
    /\ UNCHANGED genVars
    /\ UNCHANGED demo

\* catch (...) { throw; }: the signal leaves main, the process is terminated.
RunRethrow ==
    /\ pc = "tryexit"
    /\ CatchClause(inflight) = "rethrow"
    /\ status' = [status EXCEPT ![idx] = "fatal-aborted"]
    /\ pc' = "terminated"
    /\ exitStatus' = "abort"
    /\ UNCHANGED <<prog, idx, stmt, inflight, out, invoked, raised, lastStmt>>
    /\ UNCHANGED genVars
    /\ UNCHANGED demo

\* return 0; after the last RUN_EXAMPLE.
MainReturn ==
    /\ pc = "label"
    /\ idx > NumRun(prog)
    /\ pc' = "returned"
    /\ exitStatus' = MainResult(status)
    /\ UNCHANGED <<prog, idx, stmt, inflight, out, status, invoked, raised,
                   lastStmt>>
    /\ UNCHANGED genVars
    /\ UNCHANGED demo

Next ==
    \/ MainBanner
    \/ RunLabel
    \/ RunCall
    \/ ExecStmt
    \/ ExecLoop
    \/ FuncReturn
    \/ RunOk
    \/ RunCatch
    \/ RunRethrow
    \/ MainReturn

Spec == Init /\ [][Next]_vars

\* main is a sequential program: while a step is possible, one is taken.
FairSpec == Spec /\ WF_vars(Next)

(***************************************************************************)
(* Reading std::cout back: the lines the runner wrote for one example.     *)
(***************************************************************************)
HarnessKinds == {"AssertionFailure", "ThrowingFailure"}

LabelAt(i) ==
    {k \in DOMAIN out :
       out[k].tag = "label" /\ out[k].name = Examples(prog)[i]}
HasLabel(i) == LabelAt(i) # {}
\* What follows the label of example i, up to the next label.
Segment(i) ==
    LET at == LabelAt(i)
    IN  IF at = {} THEN <<>>
        ELSE LET p == CHOOSE k \in at : TRUE
                 later == {k \in (p + 1)..Len(out) : out[k].tag = "label"}
                 e == IF later = {} THEN Len(out)
                      ELSE (CHOOSE k \in later : \A m \in later : k <= m) - 1
             IN  SubSeq(out, p + 1, e)
IsMarker(l) == l.tag \in {"OK", "FAILED"}
Markers(i) == SelectSeq(Segment(i), IsMarker)
IsLabel(l) == l.tag = "label"
LabelsWritten == SelectSeq(out, IsLabel)

\* The runner is done with example i.
Processed(i) == status[i] \in {"passed", "failed-reported", "fatal-aborted"}
Reported(i) == status[i] \in {"passed", "failed-reported"}

\* The statement executed last is still the latest word on its example.
ThisFile == File(prog)
LastLine == Line(lastStmt.ex, lastStmt.no)

(***************************************************************************)
(* C1.  EXPECT_THROW(op) raises ThrowingFailure iff op() completes without *)
(* raising; when op() raises any signal (runtime error, non-exception      *)
(* value, nested AssertionFailure or ThrowingFailure) EXPECT_THROW returns *)
(* normally: the example goes on, and op's signal never reaches the        *)
(* runner.                                                                 *)
(***************************************************************************)
C1_ExpectThrow ==
    lastStmt.kind = "EXPECT_THROW" =>
      /\ (lastStmt.result.kind = "ThrowingFailure") <=> (lastStmt.op = NoSignal)
      /\ lastStmt.op = NoSignal =>
           /\ lastStmt.result = ThrowingFailure(ThisFile, LastLine)
           /\ raised[lastStmt.ex] = lastStmt.result
           /\ inflight = lastStmt.result
           /\ pc = "tryexit"
      /\ lastStmt.op # NoSignal =>
           /\ lastStmt.result = NoSignal
           /\ raised[lastStmt.ex] = NoSignal
           /\ inflight = NoSignal
           /\ pc \in {"body", "tryexit", "hung"}

\* An example whose EXPECT_THROW swallowed a thrown non-exception value and
\* which then returned normally, the runner about to write OK.
C1_Witness ==
    /\ lastStmt.kind = "EXPECT_THROW"
    /\ lastStmt.op = NonException
    /\ pc = "tryexit"
    /\ CatchClause(inflight) = "completed"

(***************************************************************************)
(* C2.  ASSERT(c) raises AssertionFailure iff c is false; when c is true   *)
(* it returns normally with no observable effect: nothing is printed,      *)
(* nothing is raised, the body goes on with its next statement.            *)
(***************************************************************************)
C2_AssertIffFalse ==
    [][(lastStmt' # lastStmt /\ lastStmt'.kind = "ASSERT") =>
         /\ (lastStmt'.result.kind = "AssertionFailure") <=> ~lastStmt'.cond
         /\ ~lastStmt'.cond =>
              /\ lastStmt'.result = AssertionFailure(File(prog), Line(idx, stmt))
              /\ inflight' = lastStmt'.result
              /\ pc' = "tryexit"
         /\ lastStmt'.cond =>
              /\ lastStmt'.result = NoSignal
              /\ out' = out
              /\ inflight' = inflight
              /\ raised' = raised
              /\ status' = status
              /\ pc' = "body"
              /\ stmt' = stmt + 1]_vars

\* A body whose first statement passed and whose second is a failing ASSERT.
C2_Witness ==
    /\ lastStmt.kind = "ASSERT"
    /\ lastStmt.no = 2
    /\ ~lastStmt.cond
    /\ inflight.kind = "AssertionFailure"

(***************************************************************************)
(* C3.  For every example RUN_EXAMPLE is done with: if its operation       *)
(* raised nothing, the runner wrote "OK" after the label; if it raised     *)
(* AssertionFailure or ThrowingFailure, "FAILED" and then a line holding   *)
(* exactly that signal's message.  OK and FAILED are the only markers and  *)
(* exactly one is written for such an example.                             *)
(***************************************************************************)
C3_Markers ==
    /\ \A k \in DOMAIN out :
         out[k].tag \in {"banner", "label", "OK", "FAILED", "message"}
    /\ \A i \in ExampleIds(prog) :
         LET seg == Segment(i)
         IN  /\ Len(SelectSeq(seg, IsMarker)) <= 1
             /\ (Processed(i) /\ raised[i] = NoSignal) =>
                  /\ status[i] = "passed"
                  /\ seg = <<OkLine>>
             /\ (Processed(i) /\ raised[i].kind \in HarnessKinds) =>
                  /\ status[i] = "failed-reported"
                  /\ seg = <<FailedLine, MessageLine(raised[i])>>
                  /\ seg[2].what = What(raised[i])

\* One example reported FAILED for a ThrowingFailure, the next reported OK.
C3_Witness ==
    /\ NumRun(prog) >= 2
    /\ status[1] = "failed-reported"
    /\ raised[1].kind = "ThrowingFailure"
    /\ status[2] = "passed"

(***************************************************************************)
(* C4.  An example that raises a signal that is neither AssertionFailure   *)
(* nor ThrowingFailure makes RUN_EXAMPLE re-raise it: the run is aborted,  *)
(* no OK or FAILED is written for that example, and no later example is    *)
(* started (no later label is written).                                    *)
(***************************************************************************)
C4_FatalAborts ==
    /\ \A i \in ExampleIds(prog) :
         raised[i].kind \notin (HarnessKinds \cup {"none"}) =>
           /\ idx = i
           /\ pc \in {"tryexit", "terminated"}
           /\ Markers(i) = <<>>
           /\ \A j \in ExampleIds(prog) :
                j > i => /\ status[j] = "not-started"
                         /\ invoked[j] = 0
                         /\ ~HasLabel(j)
           /\ Processed(i) =>
                /\ status[i] = "fatal-aborted"
                /\ pc = "terminated"
                /\ exitStatus = "abort"
    /\ pc = "terminated" =>
         /\ raised[idx].kind \notin (HarnessKinds \cup {"none"})
         /\ ~ENABLED Next

\* The second example aborted the run with a runtime error while a third
\* was still to come.
C4_Witness ==
    /\ pc = "terminated"
    /\ idx = 2
    /\ idx < NumRun(prog)
    /\ raised[2] = RuntimeError
    /\ Reported(1)

(***************************************************************************)
(* C8.  The runner invokes the examples in the order main lists them; the  *)
(* label of an example is written before its operation starts; no example  *)
(* starts before the previous one has been reported.                       *)
(***************************************************************************)
C8_OrderAndLabels ==
    /\ Len(LabelsWritten) <= NumRun(prog)
    /\ \A k \in DOMAIN LabelsWritten :
         LabelsWritten[k] = LabelLine(Examples(prog)[k])
    /\ \A i \in ExampleIds(prog) :
         /\ invoked[i] > 0 => (HasLabel(i) /\ status[i] # "not-started")
         /\ status[i] # "not-started" => invoked[i] > 0
         /\ HasLabel(i) =>
              \A j \in 1..(i - 1) : Reported(j) /\ Len(Markers(j)) = 1
         /\ (status[i] = "running" /\ pc # "hung") =>
              (idx = i /\ Markers(i) = <<>>)

\* The last example is executing its body; the first was reported FAILED.
C8_Witness ==
    /\ pc = "body"
    /\ idx = NumRun(prog)
    /\ idx >= 3
    /\ status[1] = "failed-reported"
    /\ Reported(2)

(***************************************************************************)
(* C9.  Each example goes not-started -> running -> one of passed,         *)
(* failed-reported, fatal-aborted, and is invoked at most once; after      *)
(* passed or failed-reported the next example is started.  So a run in     *)
(* which no example raises an unrecognized fault and every example         *)
(* terminates invokes every example exactly once and completes.            *)
(***************************************************************************)
StatusStep(a, b) ==
    \/ a = b
    \/ a = "not-started" /\ b = "running"
    \/ a = "running" /\ b \in {"passed", "failed-reported", "fatal-aborted"}

RunCompleted ==
    /\ pc = "returned"
    /\ \A i \in ExampleIds(prog) : invoked[i] = 1 /\ Reported(i)

C9_Lifecycle ==
    /\ [][\A i \in ExampleIds(prog) :
            /\ StatusStep(status[i], status'[i])
            /\ invoked'[i] <= 1
            /\ (Reported(i) /\ pc' = "call") => idx' > i]_vars
    /\ <>(pc \in {"terminated", "hung"} \/ RunCompleted)

\* A completed run in which one example passed and another was reported failed.
C9_Witness ==
    /\ RunCompleted
    /\ NumRun(prog) >= 3
    /\ \E i, j \in ExampleIds(prog) :
         status[i] = "passed" /\ status[j] = "failed-reported"

(***************************************************************************)
(* C10.  The marker written for example N is decided by what example N     *)
(* itself raised, whether example N-1 passed or was reported failed: the   *)
(* failure signal of an example is consumed where it is reported and no    *)
(* signal is in flight when the next example is invoked.                   *)
(***************************************************************************)
ExpectedMarker(e) == IF e = NoSignal THEN OkLine ELSE FailedLine

C10_Independence ==
    /\ pc \in {"label", "call", "body", "returned"} => inflight = NoSignal
    /\ \A i \in ExampleIds(prog) :
         (i >= 2 /\ Reported(i) /\ Reported(i - 1)) =>
           Markers(i) = <<ExpectedMarker(raised[i])>>

\* FAILED, then OK, then FAILED.
C10_Witness ==
    /\ NumRun(prog) >= 3
    /\ status[1] = "failed-reported"
    /\ status[2] = "passed"
    /\ Markers(2) = <<OkLine>>
    /\ status[3] = "failed-reported"

GenInit ==
    /\ prog = "cpp20"
    /\ RunnerInit
    /\ GenStart
    /\ demo = NoDemo

\* The process is gone once an operation has faulted.
Crashed == lastCall.fault

CanCall == ~Crashed /\ ncalls < MaxOps

\* coroutine_handle::destroy()
DestroyFrame(fs, h) == [fs EXCEPT ![h].destroyed = @ + 1]

\* auto g = range_gen(start, end);  get_return_object wraps the new frame's
\* handle: explicit Generator(Handle handle) : handle(handle) {}
OpCreate(g, start, end) ==
    /\ ~Crashed
    /\ ~gens[g].alive
    /\ Len(frames) < MaxFrames
    /\ frames' = Append(frames, NewFrame(start, end))
    /\ results' = Append(results, <<>>)
    /\ gens' = [gens EXCEPT ![g] = [alive |-> TRUE, handle |-> Len(frames) + 1,
                                    movedFrom |-> FALSE, produced |-> 0]]
    /\ lastCall' = [NoCall EXCEPT !.op = "create", !.gen = g,
                                  !.handle = Len(frames) + 1]
    /\ ncalls' = ncalls + 1

\* ~Generator() { if (handle) handle.destroy(); }
OpDtor(g) ==
    /\ ~Crashed
    /\ gens[g].alive
    /\ frames' = IF gens[g].handle # NullHandle
                   THEN DestroyFrame(frames, gens[g].handle) ELSE frames
    /\ gens' = [gens EXCEPT ![g].alive = FALSE]
    /\ lastCall' = [NoCall EXCEPT !.op = "dtor", !.gen = g,
                                  !.handle = gens[g].handle,
                                  !.movedFrom = gens[g].movedFrom]
    /\ ncalls' = ncalls + 1
    /\ UNCHANGED <<results>>

\* Generator(Generator &&g) noexcept : handle(g.handle) { g.handle = {}; }
OpMoveCtor(dst, src) ==
    /\ ~Crashed
    /\ ~gens[dst].alive
    /\ gens[src].alive
    /\ gens' = [gens EXCEPT
                  ![dst] = [alive |-> TRUE,
                            handle |-> TakenHandle(gens[src].handle),
                            movedFrom |-> FALSE, produced |-> 0],
                  ![src] = [@ EXCEPT !.handle = MovedFromHandle(gens[src].handle),
                                     !.movedFrom = TRUE]]
    /\ lastCall' = [NoCall EXCEPT !.op = "move-ctor", !.gen = dst, !.src = src,
                                  !.handle = gens[src].handle,
                                  !.produced = gens[src].produced]
    /\ ncalls' = ncalls + 1
    /\ UNCHANGED <<frames, results>>

\* Generator &operator=(Generator &&g) noexcept
OpMoveAssign(dst, src) ==
    /\ ~Crashed
    /\ gens[dst].alive
    /\ gens[src].alive
    /\ IF SameObject(dst, src)
         THEN UNCHANGED <<frames, gens>>
         ELSE /\ frames' = IF gens[dst].handle # NullHandle
                             THEN DestroyFrame(frames, gens[dst].handle)
                             ELSE frames
              /\ gens' = [gens EXCEPT
                            ![dst] = [@ EXCEPT
                                        !.handle = TakenHandle(gens[src].handle),
                                               !.movedFrom = FALSE],
                            ![src] = [@ EXCEPT
                                        !.handle = MovedFromHandle(gens[src].handle),
                                        !.movedFrom = TRUE]]
    /\ lastCall' = [NoCall EXCEPT !.op = "move-assign", !.gen = dst, !.src = src,
                                  !.handle = gens[src].handle,
                                  !.produced = gens[src].produced]
    /\ ncalls' = ncalls + 1
    /\ UNCHANGED <<results>>

\* std::optional<T> next(): the null handle returns empty at once.
OpNextNull(g) ==
    /\ ~Crashed
    /\ gens[g].alive
    /\ gens[g].handle = NullHandle
    /\ lastCall' = [NoCall EXCEPT !.op = "next", !.gen = g,
                                  !.movedFrom = gens[g].movedFrom,
                                  !.produced = gens[g].produced]
    /\ ncalls' = ncalls + 1
    /\ UNCHANGED <<frames, gens, results>>

\* std::optional<T> next(): the coroutine is resumed from initial_suspend or
\* from a co_yield.
OpNextResume(g) ==
    LET h == gens[g].handle
    IN  /\ ~Crashed
        /\ gens[g].alive
        /\ h # NullHandle
        /\ frames[h].destroyed = 0
        /\ ~Done(frames[h])
        /\ LET fr == Resume(frames[h])
               r == NextResult(fr)
           IN  /\ frames' = [frames EXCEPT ![h] = fr]
               /\ results' = [results EXCEPT
                                ![h] = Append(@, [has |-> r.has, v |-> r.v,
                                                  fault |-> FALSE])]
               /\ gens' = [gens EXCEPT
                             ![g].produced = IF r.has THEN @ + 1 ELSE @]
               /\ lastCall' = [NoCall EXCEPT !.op = "next", !.gen = g,
                                             !.handle = h,
                                             !.movedFrom = gens[g].movedFrom,
                                             !.produced = gens[g].produced,
                                             !.resumed = TRUE, !.result = r]
        /\ ncalls' = ncalls + 1

\* std::optional<T> next() on a generator whose coroutine is already at its
\* final suspend point (or whose frame is gone): next() tests only the
\* handle, so handle.resume() is called all the same.
OpNextDone(g) ==
    LET h == gens[g].handle
    IN  /\ ~Crashed
        /\ gens[g].alive
        /\ h # NullHandle
        /\ (Done(frames[h]) \/ frames[h].destroyed > 0)
        /\ \E o \in UBOutcomes :
             LET r == IF o = "fault" THEN None ELSE NextResult(frames[h])
             IN  /\ results' = [results EXCEPT
                                  ![h] = Append(@, [has |-> r.has, v |-> r.v,
                                                    fault |-> (o = "fault")])]
                 /\ lastCall' = [NoCall EXCEPT !.op = "next", !.gen = g,
                                               !.handle = h,
                                               !.movedFrom = gens[g].movedFrom,
                                               !.wasDone = TRUE,
                                               !.produced = gens[g].produced,
                                               !.resumed = TRUE,
                                               !.fault = (o = "fault"),
                                               !.result = r]
        /\ ncalls' = ncalls + 1
        /\ UNCHANGED <<frames, gens>>

\* std::optional<T> next()
OpNext(g) == OpNextNull(g) \/ OpNextResume(g) \/ OpNextDone(g)

(***************************************************************************)
(* A client that applies the Generator operations in any order.            *)
(***************************************************************************)
GenCreate(g, start, end) ==
    CanCall /\ OpCreate(g, start, end) /\ UNCHANGED runnerVars /\ UNCHANGED demo

GenDtor(g) ==
    CanCall /\ OpDtor(g) /\ UNCHANGED runnerVars /\ UNCHANGED demo

GenMoveCtor(dst, src) ==
    CanCall /\ OpMoveCtor(dst, src) /\ UNCHANGED runnerVars /\ UNCHANGED demo

GenMoveAssign(dst, src) ==
    CanCall /\ OpMoveAssign(dst, src) /\ UNCHANGED runnerVars /\ UNCHANGED demo

GenNextNull(g) ==
    CanCall /\ OpNextNull(g) /\ UNCHANGED runnerVars /\ UNCHANGED demo

GenNextResume(g) ==
    CanCall /\ OpNextResume(g) /\ UNCHANGED runnerVars /\ UNCHANGED demo

GenNextDone(g) ==
    CanCall /\ OpNextDone(g) /\ UNCHANGED runnerVars /\ UNCHANGED demo

GenNext ==
    \/ \E g \in GenNames, s \in 0..MaxEnd, e \in 0..MaxEnd : GenCreate(g, s, e)
    \/ \E g \in GenNames : GenDtor(g)
    \/ \E d \in GenNames, s \in GenNames : GenMoveCtor(d, s)
    \/ \E d \in GenNames, s \in GenNames : GenMoveAssign(d, s)
    \/ \E g \in GenNames : GenNextNull(g)
    \/ \E g \in GenNames : GenNextResume(g)
    \/ \E g \in GenNames : GenNextDone(g)

GenSpec == GenInit /\ [][GenNext]_vars

(***************************************************************************)
(* Reading the Generator history.                                          *)
(***************************************************************************)
\* The coroutine of g has run to its end.
Completed(g) ==
    /\ gens[g].alive
    /\ gens[g].handle # NullHandle
    /\ Done(frames[gens[g].handle])

\* How many values range_gen(first, end) yields before it completes.
YieldCount(fr) == IF fr.first < fr.end THEN fr.end - fr.first ELSE 0

Value(x) == [has |-> TRUE, v |-> x, fault |-> FALSE]
Empty == [has |-> FALSE, v |-> 0, fault |-> FALSE]

(***************************************************************************)
(* C5.  Once a Generator has completed, every further next() returns an    *)
(* empty result and has no further effect: the generator stays completed   *)
(* and nothing faults.                                                     *)
(***************************************************************************)
C5_NextAfterCompletion ==
    (lastCall.op = "next" /\ lastCall.wasDone) =>
      /\ ~lastCall.fault
      /\ lastCall.result = None
      /\ Completed(lastCall.gen)

(***************************************************************************)
(* C6.  For a producer that yields v0..v(n-1) and then completes, the      *)
(* results of next() are v0, ..., v(n-1) in that order and then empty on   *)
(* every later call, however many calls follow.                            *)
(***************************************************************************)
C6_SequenceLaw ==
    \A h \in DOMAIN frames :
      \A k \in DOMAIN results[h] :
        results[h][k] = IF k <= YieldCount(frames[h])
                          THEN Value(frames[h].first + k - 1)
                          ELSE Empty

(***************************************************************************)
(* C7.  After a Generator g has been moved into another one (by move       *)
(* construction or move assignment), every next() on g returns empty at    *)
(* once and without fault, whatever g had produced before the move: no     *)
(* coroutine is resumed and nothing changes.                               *)
(***************************************************************************)
C7_MovedFromNext ==
    [][\A g \in GenNames :
         (/\ gens[g].alive
          /\ gens[g].movedFrom
          /\ ncalls' = ncalls + 1
          /\ lastCall'.op = "next"
          /\ lastCall'.gen = g) =>
           /\ lastCall'.result = None
           /\ ~lastCall'.fault
           /\ ~lastCall'.resumed
           /\ frames' = frames
           /\ results' = results
           /\ gens' = gens]_vars

\* next() on a generator that had produced a value and was then moved from,
\* while the coroutine it used to own is alive and has more to yield.
C7_Witness ==
    /\ lastCall.op = "next"
    /\ lastCall.movedFrom
    /\ lastCall.produced >= 1
    /\ lastCall.result = None
    /\ \E o \in GenNames :
         /\ o # lastCall.gen
         /\ gens[o].alive
         /\ gens[o].handle # NullHandle
         /\ frames[gens[o].handle].destroyed = 0
         /\ frames[gens[o].handle].start < frames[gens[o].handle].end

(***************************************************************************)
(* test_coroutines (cpp20.cpp): a generator is made by range_gen and       *)
(* drained into a vector by  while (auto n = gen.next()) ...  , the vector *)
(* is compared with {0, 1, 2, 3, 4}, and the generator goes out of scope.  *)
(* The demonstration calls range_gen(0, 5); here the two arguments are     *)
(* inputs.                                                                 *)
(***************************************************************************)
RangeMax == 5      \* range_gen arguments of test_coroutines: 0..RangeMax

\* std::vector<int>{0, 1, 2, 3, 4}
TcExpected == <<0, 1, 2, 3, 4>>

\* while (auto n = gen.next()): the condition is the optional's has_value().
LoopTest_ValueTruthy(n) == n.has /\ n.v # 0
LoopTest(n) == n.has

TcInit ==
    /\ prog = "cpp20"
    /\ RunnerInit
    /\ GenStart
    /\ \E s \in 0..RangeMax, e \in 0..RangeMax :
         demo = [pc |-> "create", start |-> s, end |-> e, vec |-> <<>>,
                 n |-> None, verdict |-> NoSignal]

\* auto gen = range_gen(0, 5);
TcCreate ==
    /\ demo.pc = "create"
    /\ OpCreate("g", demo.start, demo.end)
    /\ demo' = [demo EXCEPT !.pc = "loop"]
    /\ UNCHANGED runnerVars

\* while (auto n = gen.next())
TcLoopNext ==
    /\ demo.pc = "loop"
    /\ OpNext("g")
    /\ demo' = [demo EXCEPT
                  !.n = lastCall'.result,
                  !.pc = IF lastCall'.fault THEN "crashed"
                         ELSE IF LoopTest(lastCall'.result) THEN "push"
                         ELSE "compare"]
    /\ UNCHANGED runnerVars

\* vec.push_back(n.value());
TcPush ==
    /\ demo.pc = "push"
    /\ demo' = [demo EXCEPT !.vec = Append(@, demo.n.v), !.pc = "loop"]
    /\ UNCHANGED runnerVars
    /\ UNCHANGED genVars

\* ASSERT_EQ(vec, (std::vector<int>{0, 1, 2, 3, 4}));
TcCompare ==
    /\ demo.pc = "compare"
    /\ demo' = [demo EXCEPT
                  !.verdict = ASSERT_EQ(demo.vec, TcExpected, File(prog), 106),
                  !.pc = "return"]
    /\ UNCHANGED runnerVars
    /\ UNCHANGED genVars

\* gen goes out of scope, on return as on the unwinding of a failed ASSERT_EQ.
TcReturn ==
    /\ demo.pc = "return"
    /\ OpDtor("g")
    /\ demo' = [demo EXCEPT !.pc = "done"]
    /\ UNCHANGED runnerVars

TcNext ==
    \/ TcCreate
    \/ TcLoopNext
    \/ TcPush
    \/ TcCompare
    \/ TcReturn

CoroSpec == TcInit /\ [][TcNext]_vars

\* start, start + 1, ..., end - 1
RangeSeq(s, e) == [k \in 1..(IF s < e THEN e - s ELSE 0) |-> s + k - 1]

IsPrefix(p, q) == Len(p) <= Len(q) /\ p = SubSeq(q, 1, Len(p))

(***************************************************************************)
(* C11.  range_gen(start, end) wrapped in a Generator and drained by       *)
(* next() until the first empty result gives exactly start, start + 1,     *)
(* ..., end - 1 (so range_gen(0, 5) gives [0, 1, 2, 3, 4] and the          *)
(* comparison of test_coroutines passes; a yielded 0 does not stop the     *)
(* collection); when start >= end the very first next() returns empty.     *)
(***************************************************************************)
C11_Drain ==
    /\ demo.pc # "crashed"
    /\ IsPrefix(demo.vec, RangeSeq(demo.start, demo.end))
    /\ demo.pc \in {"compare", "return", "done"} =>
         /\ demo.vec = RangeSeq(demo.start, demo.end)
         /\ results[1][Len(results[1])] = Empty
         /\ Len(results[1]) = Len(demo.vec) + 1
    /\ (demo.pc \in {"compare", "return", "done"} /\ demo.start >= demo.end) =>
         results[1] = <<Empty>>
    /\ (demo.pc \in {"return", "done"} /\ demo.start = 0 /\ demo.end = 5) =>
         (demo.vec = <<0, 1, 2, 3, 4>> /\ demo.verdict = NoSignal)

\* test_coroutines as written: range_gen(0, 5) drained, compared, passed.
C11_Witness ==
    /\ demo.pc = "done"
    /\ demo.start = 0
    /\ demo.end = 5
    /\ demo.vec = <<0, 1, 2, 3, 4>>
    /\ demo.verdict = NoSignal

(***************************************************************************)
(* C12.  Moving a Generator transfers the remaining sequence: when g has   *)
(* produced the first k of its n values and is moved into g2, the move     *)
(* hands g2 the very coroutine g had, untouched, so the next() calls on g2 *)
(* return v(k), ..., v(n-1) in order and then empty; no value is lost or   *)
(* repeated.                                                               *)
(***************************************************************************)
\* A move from src into another object dst has just been made.
MoveStep(dst, src) ==
    /\ ncalls' = ncalls + 1
    /\ lastCall'.op \in {"move-ctor", "move-assign"}
    /\ lastCall'.gen = dst
    /\ lastCall'.src = src
    /\ dst # src

\* The results drawn so far from the coroutine h, by whichever objects have
\* owned it, are the first values of its range, and empty after the last.
InOrder(h) ==
    \A k \in DOMAIN results[h] :
      k <= YieldCount(frames[h]) + 1 =>
        results[h][k] = IF k <= YieldCount(frames[h])
                          THEN Value(frames[h].first + k - 1)
                          ELSE Empty

C12_MoveTransfers ==
    /\ [](\A h \in DOMAIN frames : InOrder(h))
    /\ [][\A d \in GenNames, s \in GenNames :
            (MoveStep(d, s) /\ gens[s].handle # NullHandle) =>
              /\ gens'[d].alive
              /\ gens'[d].handle = gens[s].handle
              /\ frames'[gens[s].handle] = frames[gens[s].handle]
              /\ results'[gens[s].handle] = results[gens[s].handle]]_vars
    /\ [][\A g \in GenNames :
            (/\ ncalls' = ncalls + 1
             /\ lastCall'.op = "next"
             /\ lastCall'.gen = g
             /\ gens[g].handle # NullHandle
             /\ ~lastCall'.wasDone) =>
              LET h == gens[g].handle
                  k == Len(results[h]) + 1
              IN  /\ Len(results'[h]) = k
                  /\ results'[h][k].has = lastCall'.result.has
                  /\ results'[h][k].v = lastCall'.result.v
                  /\ lastCall'.result =
                       IF k <= YieldCount(frames[h])
                         THEN Some(frames[h].first + k - 1)
                         ELSE None]_vars

\* range_gen(0, 2): g produced 0 and was moved into g2, which then got 1
\* and, on its next call, empty.
C12_Witness ==
    /\ lastCall.op = "next"
    /\ lastCall.gen = "g2"
    /\ ~lastCall.wasDone
    /\ lastCall.result = None
    /\ gens["g"].movedFrom
    /\ gens["g"].produced = 1
    /\ gens["g2"].produced = 1
    /\ results[gens["g2"].handle] = <<Value(0), Value(1), Empty>>

(***************************************************************************)
(* C13.  A Generator is lazy: constructing it runs none of range_gen's     *)
(* body (the coroutine waits at initial_suspend and holds no value), and   *)
(* each next() runs the body to its next co_yield or to its end, so that   *)
(* after k calls of next() the body has executed at most k yields.         *)
(***************************************************************************)
\* The coroutine h is as its construction left it.
NotStarted(h) ==
    /\ frames[h].susp = "initial"
    /\ frames[h].state = None
    /\ frames[h].yields = 0
    /\ frames[h].start = frames[h].first

C13_Lazy ==
    /\ \A h \in DOMAIN frames :
         /\ frames[h].yields <= Len(results[h])
         /\ Len(results[h]) = 0 => NotStarted(h)
    /\ lastCall.op = "create" => NotStarted(lastCall.handle)
    /\ (lastCall.op = "next" /\ lastCall.handle # NullHandle) =>
         frames[lastCall.handle].yields =
           Min(Len(results[lastCall.handle]), YieldCount(frames[lastCall.handle]))

\* Two calls of next() have run two yields of one coroutine, and a second
\* coroutine with values to give has just been constructed.
C13_Witness ==
    /\ lastCall.op = "create"
    /\ Len(frames) = 2
    /\ frames[1].yields = 2
    /\ Len(results[1]) = 2
    /\ frames[2].first < frames[2].end
    /\ NotStarted(2)

(***************************************************************************)
(* C14.  Over any sequence of constructions, move constructions, move      *)
(* assignments and destructions, a coroutine is referenced by at most one  *)
(* Generator object at a time and is destroyed exactly once, when the      *)
(* object that owns it is destroyed or is move-assigned another            *)
(* generator's coroutine: it is never destroyed twice, and never left      *)
(* alive without an owner.                                                 *)
(***************************************************************************)
\* The Generator objects in scope whose handle refers to the coroutine h.
Owners(h) == {g \in GenNames : gens[g].alive /\ gens[g].handle = h}

StmtStep == pc = "body" /\ lastStmt' # lastStmt /\ lastStmt'.kind # "none"

C15_FailureIsTerminal ==
    /\ [](\A i \in ExampleIds(prog) :
            /\ invoked[i] <= 1
            /\ raised[i] # NoSignal => ~(idx = i /\ pc = "body"))
    /\ [][/\ StmtStep => raised[lastStmt'.ex] = NoSignal
          /\ \A i \in ExampleIds(prog) :
               invoked'[i] # invoked[i] =>
                 (invoked[i] = 0 /\ raised[i] = NoSignal)
          /\ \A i \in ExampleIds(prog) :
               raised[i] # NoSignal => raised'[i] = raised[i]]_vars

\* The first example failed at its first statement with statements left,
\* was reported, and the second example is executing: the first one was
\* invoked once and has run nothing since.
C15_Witness ==
    /\ NumRun(prog) >= 2
    /\ MaxStmts >= 2
    /\ raised[1].kind \in HarnessKinds
    /\ raised[1].line = Line(1, 1)
    /\ status[1] = "failed-reported"
    /\ invoked[1] = 1
    /\ lastStmt.ex = 2
    /\ lastStmt.kind = "EXPECT_THROW"
    /\ lastStmt.result.kind = "ThrowingFailure"

(***************************************************************************)
(* C16.  A run that completes ends with exit status zero, however many     *)
(* examples were reported FAILED; the process ends otherwise (abnormally,  *)
(* non-zero) only when a fault that is no harness failure has propagated   *)
(* out of the runner.                                                      *)
(***************************************************************************)
C16_ExitStatus ==
    /\ exitStatus \in {"running", "0", "abort"}
    /\ (exitStatus = "0") <=> (pc = "returned")
    /\ (exitStatus = "abort") <=> (pc = "terminated")
    /\ pc = "returned" =>
         \A i \in ExampleIds(prog) : Reported(i)
    /\ pc = "terminated" =>
         /\ inflight.kind \notin HarnessKinds \cup {"none"}
         /\ status[idx] = "fatal-aborted"
         /\ raised[idx] = inflight

\* main has returned after every example was reported FAILED.
C16_Witness ==
    /\ pc = "returned"
    /\ exitStatus = "0"
    /\ NumRun(prog) >= 2
    /\ \A i \in ExampleIds(prog) : status[i] = "failed-reported"

(***************************************************************************)
(* C17.  For all operands a and b, ASSERT_EQ(a, b) has exactly the outcome *)
(* of ASSERT(a == b), and ASSERT_NE(a, b) exactly that of ASSERT(a != b):  *)
(* it raises or not as ASSERT would, and what it raises is the same        *)
(* AssertionFailure, with the same effect on the run of the example.       *)
(***************************************************************************)
\* What ASSERT(c) at the place of the last statement gives, and the state of
\* the run it leaves behind (C2).
SameAsAssert(c) ==
    /\ lastStmt.result = ASSERT(c, ThisFile, LastLine)
    /\ (lastStmt.result.kind = "AssertionFailure") <=> ~c
    /\ lastStmt.result.kind \in {"AssertionFailure", "none"}
    /\ ~c => /\ inflight = lastStmt.result
             /\ raised[lastStmt.ex] = lastStmt.result
             /\ pc = "tryexit"
    /\ c => /\ inflight = NoSignal
            /\ raised[lastStmt.ex] = NoSignal
            /\ pc \in {"body", "tryexit", "hung"}

C17_EqNeAreAssert ==
    /\ lastStmt.kind = "ASSERT_EQ" => SameAsAssert(lastStmt.a = lastStmt.b)
    /\ lastStmt.kind = "ASSERT_NE" => SameAsAssert(lastStmt.a # lastStmt.b)
    /\ lastStmt.kind = "ASSERT" => SameAsAssert(lastStmt.cond)

\* ASSERT_EQ of two different operands has just raised.
C17_Witness ==
    /\ lastStmt.kind = "ASSERT_EQ"
    /\ lastStmt.a # lastStmt.b
    /\ lastStmt.result = AssertionFailure(ThisFile, LastLine)
    /\ pc = "tryexit"
    /\ lastStmt.no = 2

(***************************************************************************)
(* C18.  Every failure signal carries the file and line of the assertion   *)
(* that raised it, and its message is fixed at creation: what() of an      *)
(* AssertionFailure is "condition assertion failed @ <file>:<line>", of a  *)
(* ThrowingFailure "no exception thrown as expected @ <file>:<line>", the  *)
(* signal reaches the handler as it was created, and the message line the  *)
(* runner prints is that same text.                                        *)
(***************************************************************************)
\* The number a sequence of decimal digits denotes.
RECURSIVE ParseDec(_)
ParseDec(ds) ==
    IF ds = <<>> THEN 0
    ELSE 10 * ParseDec(SubSeq(ds, 1, Len(ds) - 1)) + ds[Len(ds)]

IsDecimal(ds) ==
    /\ Len(ds) >= 1
    /\ \A k \in DOMAIN ds : ds[k] \in 0..9
    /\ Len(ds) > 1 => ds[1] # 0

MessagePrefix(kind) ==
    IF kind = "AssertionFailure" THEN "condition assertion failed @ "
    ELSE "no exception thrown as expected @ "

\* text reads  <prefix of e's kind><e's file>:<e's line>
ReadsAs(text, e) ==
    /\ text[1] = MessagePrefix(e.kind)
    /\ text[2] = e.file
    /\ text[3] = ":"
    /\ IsDecimal(text[4])
    /\ ParseDec(text[4]) = e.line

C18_Messages ==
    \A i \in ExampleIds(prog) :
      raised[i].kind \in HarnessKinds =>
        /\ raised[i].file = File(prog)
        /\ \E s \in 1..MaxStmts : raised[i].line = Line(i, s)
        /\ ReadsAs(raised[i].message, raised[i])
        /\ (idx = i /\ pc = "tryexit") => inflight = raised[i]
        /\ status[i] = "failed-reported" =>
             LET seg == Segment(i)
             IN  /\ Len(seg) = 2
                 /\ seg[2].tag = "message"
                 /\ seg[2].what = raised[i].message
                 /\ ReadsAs(seg[2].what, raised[i])

\* An AssertionFailure and a ThrowingFailure, raised at different lines of
\* two examples, have both been reported.
C18_Witness ==
    /\ NumRun(prog) >= 2
    /\ status[1] = "failed-reported"
    /\ status[2] = "failed-reported"
    /\ raised[1].kind = "AssertionFailure"
    /\ raised[2].kind = "ThrowingFailure"
    /\ raised[2].line = Line(2, 2)
    /\ Len(raised[2].message[4]) = 2

(***************************************************************************)
(* C19.  Each demonstration program writes, before its first example       *)
(* label, one banner line, and the banner announces the feature era of     *)
(* that program's own examples: the C++11 program C++11, the C++14 program *)
(* C++14, the C++17 program C++17, the C++20 program C++20.                *)
(***************************************************************************)
\* The feature era whose examples program p holds.
Era(p) ==
    CASE p = "cpp11" -> "C++11"
      [] p = "cpp14" -> "C++14"
      [] p = "cpp17" -> "C++17"
      [] OTHER -> "C++20"

\* The feature era a banner text names.
Announced(text) ==
    CASE text = "C++11 features runnable tests:" -> "C++11"
      [] text = "C++14 features runnable tests:" -> "C++14"
      [] text = "C++17 features runnable tests:" -> "C++17"
      [] text = "C++20 features runnable tests:" -> "C++20"
      [] OTHER -> "none"

IsBanner(l) == l.tag = "banner"

C19_BannerEra ==
    pc # "banner" =>
      /\ out[1].tag = "banner"
      /\ Len(SelectSeq(out, IsBanner)) = 1
      /\ Announced(out[1].name) = Era(prog)

(***************************************************************************)
(* double (IEEE 754 binary64), as far as test_folding_exprs (cpp17.cpp)    *)
(* needs it: positive normal numbers, conversion of a decimal literal and  *)
(* of an int, addition, comparison; rounding is to nearest, ties to even.  *)
(* A double is [e |-> exponent, m |-> its significand, most significant    *)
(* bit first, m[1] = 1]: the value is m, read as a binary number, times    *)
(* 2^(e - (Len(m) - 1)).                                                   *)
(***************************************************************************)
Precision == 53    \* significand bits of a double

Zeros(n) == [k \in 1..n |-> 0]
Front(s) == SubSeq(s, 1, Len(s) - 1)
Last(s) == s[Len(s)]

\* The binary digits of the integer n >= 1.
RECURSIVE IntBits(_)
IntBits(n) == IF n < 2 THEN <<n>> ELSE Append(IntBits(n \div 2), n % 2)

\* The first k binary digits of the fraction r/q (0 <= r < q), and what is
\* left of r after them.
RECURSIVE FracBits(_, _, _)
FracBits(r, q, k) ==
    IF k = 0 THEN <<>>
    ELSE <<IF 2 * r >= q THEN 1 ELSE 0>> \o FracBits((2 * r) % q, q, k - 1)

RECURSIVE FracRem(_, _, _)
FracRem(r, q, k) == IF k = 0 THEN r ELSE FracRem((2 * r) % q, q, k - 1)

\* x + y for two digit sequences of one length; one digit longer on carry
\* out.  The carry into place k comes from the nearest lower place where
\* both digits are 1, through places where exactly one is.
AddBits(x, y) ==
    LET n == Len(x)
        t == [k \in 1..n |-> x[k] + y[k]]
        carry(k) == IF \E j \in (k + 1)..n :
                         t[j] = 2 /\ \A i \in (k + 1)..(j - 1) : t[i] = 1
                      THEN 1 ELSE 0
        low == [k \in 1..n |-> (t[k] + carry(k)) % 2]
    IN  IF carry(0) = 1 THEN <<1>> \o low ELSE low

\* The number with the digits bits (bits[1] = 1, of weight 2^e), followed by
\* something non-zero below the last digit iff sticky, rounded to p digits.
RoundNearestEven(bits, sticky, e, p) ==
    IF Len(bits) <= p
      THEN [e |-> e, m |-> bits \o Zeros(p - Len(bits))]
      ELSE LET kept == SubSeq(bits, 1, p)
               guard == bits[p + 1]
               rest == sticky \/ \E k \in (p + 2)..Len(bits) : bits[k] = 1
               up == guard = 1 /\ (rest \/ kept[p] = 1)
               inc == AddBits(kept, Zeros(p - 1) \o <<1>>)
           IN  IF ~up THEN [e |-> e, m |-> kept]
               ELSE IF Len(inc) = p THEN [e |-> e, m |-> inc]
               ELSE [e |-> e + 1, m |-> SubSeq(inc, 1, p)]

\* The double nearest to the decimal literal p/q (p >= q > 0), e.g. 2.3 is
\* 23/10; p digits of significand.
Literal(p, q, prec) ==
    LET ib == IntBits(p \div q)
        k == prec + 1 - Len(ib)
    IN  RoundNearestEven(ib \o FracBits(p % q, q, k), FracRem(p % q, q, k) # 0,
                         Len(ib) - 1, prec)

\* float literal (2.3f) converted to double.
DoubleLiteral_Single(p, q) ==
    LET f == Literal(p, q, 24)
    IN  [e |-> f.e, m |-> f.m \o Zeros(Precision - 24)]

\* double n1 = 2.3;
DoubleLiteral(p, q) == Literal(p, q, Precision)

\* The conversion of an int n >= 1 to double (exact).
FromInt(n) == RoundNearestEven(IntBits(n), FALSE, Len(IntBits(n)) - 1, Precision)

\* x + y on doubles: the exact sum of the aligned significands, rounded.
DAdd(x, y) ==
    LET hi == IF x.e >= y.e THEN x ELSE y
        lo == IF x.e >= y.e THEN y ELSE x
        d == hi.e - lo.e
        s == AddBits(hi.m \o Zeros(d), Zeros(d) \o lo.m)
        carry == Len(s) - (Precision + d)
    IN  RoundNearestEven(s, FALSE, hi.e + carry, Precision)

\* return (... + args);  the unary left fold of sum(n0, n2, 3), an int, a
\* double and an int: each + converts its int operand to double.
sum(n0, n2, c) == DAdd(DAdd(FromInt(n0), n2), FromInt(c))

(***************************************************************************)
(* test_folding_exprs (cpp17.cpp).  The demonstration calls sum(1, 2.3, 3) *)
(* and compares with 6.3; here the int n0, the literal of n1 (in tenths)   *)
(* and the last argument are inputs.                                       *)
(***************************************************************************)
FoldMax == 4       \* n0 and the last argument: 1..FoldMax; n1: 1.0..FoldMax.0

\* return (true && ... && args);
logical_and(b0, b1, b2) == ((TRUE /\ b0) /\ b1) /\ b2

NoDouble == [e |-> 0, m |-> <<>>]

FeInit ==
    /\ prog = "cpp17"
    /\ RunnerInit
    /\ GenStart
    /\ \E a \in 1..FoldMax, t \in 10..(10 * FoldMax), c \in 1..FoldMax :
         demo = [pc |-> "b2", n0 |-> a, tenths |-> t, last |-> c,
                 n1 |-> NoDouble, n3 |-> NoDouble, verdict |-> NoSignal]

\* bool b0 = true; bool &b1 = b0; bool b2 = logical_and(b0, b1, true);
\* ASSERT(b2);
FeAssertB2 ==
    /\ demo.pc = "b2"
    /\ LET v == ASSERT(logical_and(TRUE, TRUE, TRUE), File(prog), 41)
       IN  demo' = [demo EXCEPT !.verdict = v,
                                !.pc = IF v = NoSignal THEN "n1" ELSE "done"]
    /\ UNCHANGED runnerVars
    /\ UNCHANGED genVars

\* int n0 = 1; double n1 = 2.3; double &n2 = n1;
FeLiteral ==
    /\ demo.pc = "n1"
    /\ demo' = [demo EXCEPT !.n1 = DoubleLiteral(demo.tenths, 10), !.pc = "sum"]
    /\ UNCHANGED runnerVars
    /\ UNCHANGED genVars

\* auto n3 = sum(n0, n2, 3);
FeSum ==
    /\ demo.pc = "sum"
    /\ demo' = [demo EXCEPT !.n3 = sum(demo.n0, demo.n1, demo.last),
                            !.pc = "compare"]
    /\ UNCHANGED runnerVars
    /\ UNCHANGED genVars

\* ASSERT_EQ(n3, 6.3);
FeCompare ==
    /\ demo.pc = "compare"
    /\ demo' = [demo EXCEPT
                  !.verdict = ASSERT_EQ(demo.n3, DoubleLiteral(63, 10),
                                        File(prog), 46),
                  !.pc = "done"]
    /\ UNCHANGED runnerVars
    /\ UNCHANGED genVars

FeNext ==
    \/ FeAssertB2
    \/ FeLiteral
    \/ FeSum
    \/ FeCompare

FoldSpec == FeInit /\ [][FeNext]_vars

(***************************************************************************)
(* C20.  ASSERT_EQ(6.3, 1 + 2.3 + 3) passes: the fold sum(1, 2.3, 3),      *)
(* computed in double, compares equal to the double 6.3; while             *)
(* ASSERT_EQ(6.3, 1 + 2.3 + 4) raises AssertionFailure, with a message     *)
(* that contains the line of the assertion.                                *)
(***************************************************************************)
\* A positive normal double.
IsDouble(x) ==
    /\ Len(x.m) = Precision
    /\ x.m[1] = 1
    /\ \A k \in DOMAIN x.m : x.m[k] \in {0, 1}

C20_FoldSum ==
    demo.pc = "done" =>
      /\ IsDouble(demo.n1)
      /\ IsDouble(demo.n3)
      /\ (demo.verdict = NoSignal) <=> (demo.n3 = DoubleLiteral(63, 10))
      /\ demo.verdict # NoSignal =>
           /\ demo.verdict.kind = "AssertionFailure"
           /\ demo.verdict.file = "cpp17.cpp"
           /\ demo.verdict.line = 46
           /\ ReadsAs(What(demo.verdict), demo.verdict)
      /\ (demo.n0 = 1 /\ demo.tenths = 23 /\ demo.last = 3) =>
           demo.verdict = NoSignal
      /\ (demo.n0 = 1 /\ demo.tenths = 23 /\ demo.last = 4) =>
           demo.verdict = AssertionFailure("cpp17.cpp", 46)

\* sum(1, 2.3, 3) has been compared with 6.3 and nothing was raised.
C20_Witness ==
    /\ demo.pc = "done"
    /\ demo.n0 = 1
    /\ demo.tenths = 23
    /\ demo.last = 3
    /\ demo.n3 = DoubleLiteral(63, 10)
    /\ demo.verdict = NoSignal

(***************************************************************************)
(* One use of a harness macro whose arguments have side effects            *)
(* (utils.hpp), as in  ASSERT_EQ(handle0.get(), 1000)  of                  *)
(* test_std_async_future (cpp11.cpp).  An argument is an expression that   *)
(* is evaluated where the macro's expansion names it:                      *)
(*   counter  n++ or a stateful lambda: the k-th evaluation gives v + k - 1 *)
(*   oneshot  future.get(): the first evaluation gives v, the future is    *)
(*            then invalid and a further get() raises std::future_error.   *)
(*   thrower  a call that raises a runtime error each time.                *)
(***************************************************************************)
EvMax == 2         \* argument values: 0..EvMax

Slots == {"cond", "a", "b", "func"}
NoOperand == [type |-> "none", v |-> 0]
Operand == [type : {"counter", "oneshot"}, v : 0..EvMax]
Callable == [type : {"counter", "oneshot", "thrower"}, v : {0}]

\* The arguments a macro expansion evaluates, in order of evaluation.
\* ASSERT(cond):       if (!(cond)) ...
\* ASSERT_EQ(a, b):    ASSERT((a) == (b)); the operands of == are evaluated
\*                     in either order.
\* EXPECT_THROW(func): try { func(); } ...
Expansion_Twice(kind) ==
    CASE kind = "ASSERT" -> {<<"cond", "cond">>}
      [] kind \in {"ASSERT_EQ", "ASSERT_NE"} ->
           {<<"a", "b", "a", "b">>, <<"b", "a", "b", "a">>}
      [] OTHER -> {<<"func", "func">>}

Expansion(kind) ==
    CASE kind = "ASSERT" -> {<<"cond">>}
      [] kind \in {"ASSERT_EQ", "ASSERT_NE"} -> {<<"a", "b">>, <<"b", "a">>}
      [] OTHER -> {<<"func">>}

\* What the k-th evaluation of the argument o gives: its value, or the fault
\* it raises.
Evaluate(o, k) ==
    CASE o.type = "counter" -> [fault |-> NoSignal, v |-> o.v + k - 1]
      [] o.type = "oneshot" ->
           IF k = 1 THEN [fault |-> NoSignal, v |-> o.v]
           ELSE [fault |-> RuntimeError, v |-> 0]
      [] OTHER -> [fault |-> RuntimeError, v |-> 0]

EvInit ==
    /\ prog = "cpp11"
    /\ RunnerInit
    /\ GenStart
    /\ \E kind \in {"ASSERT", "ASSERT_EQ", "ASSERT_NE", "EXPECT_THROW"} :
         \E ops \in [Slots -> Operand \cup Callable \cup {NoOperand}] :
           /\ \A s \in Slots :
                IF s \in UNION {{o[k] : k \in DOMAIN o} : o \in Expansion(kind)}
                  THEN IF s = "func" THEN ops[s] \in Callable
                       ELSE ops[s] \in Operand
                  ELSE ops[s] = NoOperand
           /\ demo = [pc |-> "expand", kind |-> kind, ops |-> ops, todo |-> <<>>,
                      evals |-> [s \in Slots |-> 0],
                      vals |-> [s \in Slots |-> 0],
                      opSignal |-> NoSignal, verdict |-> NoSignal]

\* The macro is expanded where it is used.
EvExpand ==
    /\ demo.pc = "expand"
    /\ \E order \in Expansion(demo.kind) :
         demo' = [demo EXCEPT !.todo = order, !.pc = "eval"]
    /\ UNCHANGED runnerVars
    /\ UNCHANGED genVars

\* The next argument named by the expansion is evaluated.  A fault raised by
\* an argument of ASSERT, ASSERT_EQ or ASSERT_NE leaves the macro; one raised
\* by func() is caught by EXPECT_THROW's catch (...).
EvOperand ==
    /\ demo.pc = "eval"
    /\ demo.todo # <<>>
    /\ LET s == Head(demo.todo)
           k == demo.evals[s] + 1
           r == Evaluate(demo.ops[s], k)
       IN  demo' = [demo EXCEPT
                      !.evals[s] = k,
                      !.vals[s] = r.v,
                      !.todo = Tail(@),
                      !.opSignal = IF r.fault # NoSignal THEN r.fault ELSE @,
                      !.verdict = IF r.fault # NoSignal /\ s # "func"
                                    THEN r.fault ELSE @,
                      !.pc = IF r.fault # NoSignal /\ s # "func"
                               THEN "done" ELSE "eval"]
    /\ UNCHANGED runnerVars
    /\ UNCHANGED genVars

\* The arguments evaluated, the macro tests what they gave.
EvDecide ==
    /\ demo.pc = "eval"
    /\ demo.todo = <<>>
    /\ LET f == File(prog)
           v == CASE demo.kind = "ASSERT" -> ASSERT(demo.vals["cond"] # 0, f, 884)
                  [] demo.kind = "ASSERT_EQ" ->
                       ASSERT_EQ(demo.vals["a"], demo.vals["b"], f, 884)
                  [] demo.kind = "ASSERT_NE" ->
                       ASSERT_NE(demo.vals["a"], demo.vals["b"], f, 884)
                  [] OTHER -> EXPECT_THROW(demo.opSignal, f, 884)
       IN  demo' = [demo EXCEPT !.verdict = v, !.pc = "done"]
    /\ UNCHANGED runnerVars
    /\ UNCHANGED genVars

EvNext ==
    \/ EvExpand
    \/ EvOperand
    \/ EvDecide

EvalSpec == EvInit /\ [][EvNext]_vars

(***************************************************************************)
(* C21.  Every harness macro evaluates its argument exactly once per use:  *)
(* ASSERT its condition, ASSERT_EQ and ASSERT_NE each operand,             *)
(* EXPECT_THROW its operation, whether the check passes or fails; an       *)
(* argument with a side effect (a one-shot future.get(), a stateful        *)
(* lambda) is consumed a single time, and the check is made on the values  *)
(* of that one evaluation.                                                 *)
(***************************************************************************)
\* The arguments the macro of this use has.
Arguments ==
    CASE demo.kind = "ASSERT" -> {"cond"}
      [] demo.kind \in {"ASSERT_EQ", "ASSERT_NE"} -> {"a", "b"}
      [] OTHER -> {"func"}

C21_EvaluatedOnce ==
    /\ \A s \in Slots : demo.evals[s] <= 1
    /\ demo.pc = "done" =>
         /\ \A s \in Slots : demo.evals[s] = IF s \in Arguments THEN 1 ELSE 0
         /\ \A s \in Arguments \ {"func"} : demo.vals[s] = demo.ops[s].v
         /\ demo.kind = "ASSERT" =>
              (demo.verdict = NoSignal <=> demo.ops["cond"].v # 0)
         /\ demo.kind = "ASSERT_EQ" =>
              (demo.verdict = NoSignal <=> demo.ops["a"].v = demo.ops["b"].v)
         /\ demo.kind = "ASSERT_NE" =>
              (demo.verdict = NoSignal <=> demo.ops["a"].v # demo.ops["b"].v)
         /\ demo.kind = "EXPECT_THROW" =>
              (demo.verdict = NoSignal <=> demo.ops["func"].type = "thrower")
         /\ demo.verdict.kind \in {"none", "AssertionFailure", "ThrowingFailure"}

\* ASSERT_EQ(future.get(), n) has passed: get() was called once.
C21_Witness ==
    /\ demo.pc = "done"
    /\ demo.kind = "ASSERT_EQ"
    /\ demo.ops["a"].type = "oneshot"
    /\ demo.ops["b"].type = "counter"
    /\ demo.ops["a"].v = demo.ops["b"].v
    /\ demo.evals["a"] = 1
    /\ demo.evals["b"] = 1
    /\ demo.verdict = NoSignal

(***************************************************************************)
(* C22.  Move-assigning a Generator to itself is a no-op: the object keeps *)
(* its coroutine, the coroutine is not destroyed and stays where it was,   *)
(* and the next() calls that follow continue the same sequence.            *)
(***************************************************************************)
\* The coroutine h stands where the results drawn from it say.
InStep(h) ==
    /\ frames[h].yields = Min(Len(results[h]), YieldCount(frames[h]))
    /\ frames[h].start = frames[h].first + frames[h].yields
    /\ InOrder(h)

C22_SelfMoveAssign ==
    (lastCall.op = "move-assign" /\ lastCall.gen = lastCall.src) =>
      LET g == lastCall.gen
      IN  /\ gens[g].alive
          /\ gens[g].handle = lastCall.handle
          /\ gens[g].produced = lastCall.produced
          /\ lastCall.handle # NullHandle =>
               /\ ~gens[g].movedFrom
               /\ frames[lastCall.handle].destroyed = 0
               /\ Owners(lastCall.handle) = {g}
               /\ InStep(lastCall.handle)

\* g = std::move(g) on a generator that has given one of its two values.
C22_Witness ==
    /\ lastCall.op = "move-assign"
    /\ lastCall.gen = "g"
    /\ lastCall.src = "g"
    /\ gens["g"].produced = 1
    /\ gens["g"].handle # NullHandle
    /\ results[gens["g"].handle] = <<Value(0)>>
    /\ frames[gens["g"].handle].end = 2

(***************************************************************************)
(* test_std_thread (cpp11.cpp): two threads, the lambda and thread_func,   *)
(* each sleep, take counter_mutex by a std::lock_guard, and increment the  *)
(* static counter; main starts both, joins both and compares the counter   *)
(* with 2.  counter++ on an int is a load, an addition and a store.        *)
(***************************************************************************)
Threads == {1, 2}  \* 1: the lambda, 2: thread_func(1, 2)
NoOwner == 0

\* std::lock_guard<std::mutex> g(counter_mutex): the constructor returns
\* once the mutex is not held by another thread.
CanLock_Always(owner) == TRUE
CanLock(owner) == owner = NoOwner

ThInit ==
    /\ prog = "cpp11"
    /\ RunnerInit
    /\ GenStart
    /\ demo = [pc |-> "emplace", started |-> 0, joined |-> 0, counter |-> 0,
               mutex |-> NoOwner,
               th |-> [t \in Threads |-> [pc |-> "none", tmp |-> 0]],
               verdict |-> NoSignal]

\* threads.emplace_back(...): the std::thread is constructed.
ThEmplace ==
    /\ demo.pc = "emplace"
    /\ LET t == demo.started + 1
       IN  demo' = [demo EXCEPT
                      !.started = t,
                      !.th[t].pc = "created",
                      !.pc = IF t = Cardinality(Threads) THEN "for" ELSE "emplace"]
    /\ UNCHANGED runnerVars
    /\ UNCHANGED genVars

\* The new thread begins to execute its function.
ThStart(t) ==
    /\ demo.th[t].pc = "created"
    /\ demo' = [demo EXCEPT !.th[t].pc = "sleep"]
    /\ UNCHANGED runnerVars
    /\ UNCHANGED genVars

\* std::this_thread::sleep_for(...)
ThSleep(t) ==
    /\ demo.th[t].pc = "sleep"
    /\ demo' = [demo EXCEPT !.th[t].pc = "lock"]
    /\ UNCHANGED runnerVars
    /\ UNCHANGED genVars

\* std::lock_guard<std::mutex> g(counter_mutex);
ThLock(t) ==
    /\ demo.th[t].pc = "lock"
    /\ CanLock(demo.mutex)
    /\ demo' = [demo EXCEPT !.mutex = t, !.th[t].pc = "load"]
    /\ UNCHANGED runnerVars
    /\ UNCHANGED genVars

\* counter++: the value is read ...
ThLoad(t) ==
    /\ demo.th[t].pc = "load"
    /\ demo' = [demo EXCEPT !.th[t].tmp = demo.counter, !.th[t].pc = "add"]
    /\ UNCHANGED runnerVars
    /\ UNCHANGED genVars

\* ... one is added ...
ThAdd(t) ==
    /\ demo.th[t].pc = "add"
    /\ demo' = [demo EXCEPT !.th[t].tmp = @ + 1, !.th[t].pc = "store"]
    /\ UNCHANGED runnerVars
    /\ UNCHANGED genVars

\* ... and the sum is written.
ThStore(t) ==
    /\ demo.th[t].pc = "store"
    /\ demo' = [demo EXCEPT !.counter = demo.th[t].tmp,
                            !.th[t].pc = "unlock"]
    /\ UNCHANGED runnerVars
    /\ UNCHANGED genVars

\* The thread function returns: ~lock_guard releases the mutex.
ThUnlock(t) ==
    /\ demo.th[t].pc = "unlock"
    /\ demo' = [demo EXCEPT
                  !.mutex = IF @ = t THEN NoOwner ELSE @,
                  !.th[t].pc = "exit"]
    /\ UNCHANGED runnerVars
    /\ UNCHANGED genVars

\* The thread ends.
ThExit(t) ==
    /\ demo.th[t].pc = "exit"
    /\ demo' = [demo EXCEPT !.th[t].pc = "ended"]
    /\ UNCHANGED runnerVars
    /\ UNCHANGED genVars

\* for (auto &t : threads): the loop goes on to the next thread of the
\* vector, or ends after the last.
ThFor ==
    /\ demo.pc = "for"
    /\ demo' = [demo EXCEPT
                  !.pc = IF demo.joined < demo.started THEN "join" ELSE "assert"]
    /\ UNCHANGED runnerVars
    /\ UNCHANGED genVars

\* t.join();  join returns when the thread has ended.
ThJoin ==
    /\ demo.pc = "join"
    /\ demo.th[demo.joined + 1].pc = "ended"
    /\ demo' = [demo EXCEPT !.joined = @ + 1, !.pc = "for"]
    /\ UNCHANGED runnerVars
    /\ UNCHANGED genVars

\* ASSERT_EQ(counter, 2);
ThAssert ==
    /\ demo.pc = "assert"
    /\ demo' = [demo EXCEPT
                  !.verdict = ASSERT_EQ(demo.counter, 2, File(prog), 673),
                  !.pc = "done"]
    /\ UNCHANGED runnerVars
    /\ UNCHANGED genVars

ThNext ==
    \/ ThEmplace
    \/ \E t \in Threads : ThStart(t)
    \/ \E t \in Threads : ThSleep(t)
    \/ \E t \in Threads : ThLock(t)
    \/ \E t \in Threads : ThLoad(t)
    \/ \E t \in Threads : ThAdd(t)
    \/ \E t \in Threads : ThStore(t)
    \/ \E t \in Threads : ThUnlock(t)
    \/ \E t \in Threads : ThExit(t)
    \/ ThFor
    \/ ThJoin
    \/ ThAssert

ThreadSpec == ThInit /\ [][ThNext]_vars

(***************************************************************************)
(* C23.  In test_std_thread, under every interleaving of the two threads,  *)
(* each increment of the counter is made while holding counter_mutex, no   *)
(* increment is lost, and once both threads are joined the counter is 2    *)
(* (it starts at 0).                                                       *)
(***************************************************************************)
\* The threads whose increment has been written.
Incremented == {t \in Threads : demo.th[t].pc \in {"unlock", "exit", "ended"}}
\* The threads inside the lock_guard's scope.
InGuard == {t \in Threads : demo.th[t].pc \in {"load", "add", "store", "unlock"}}

C23_CounterUnderMutex ==
    /\ \A t \in InGuard : demo.mutex = t
    /\ Cardinality(InGuard) <= 1
    /\ demo.counter = Cardinality(Incremented)
    /\ demo.joined = Cardinality(Threads) =>
         /\ \A t \in Threads : demo.th[t].pc = "ended"
         /\ demo.counter = 2
    /\ demo.pc = "done" => demo.verdict = NoSignal

\* Both threads joined and the comparison made; the thread started second
\* had taken the mutex first (it is the one to write 1).
C23_Witness ==
    /\ demo.pc = "done"
    /\ demo.counter = 2
    /\ demo.th[1].tmp = 2
    /\ demo.th[2].tmp = 1
    /\ demo.verdict = NoSignal

(***************************************************************************)
(* test_std_promise (cpp11.cpp): main makes a promise and its future,      *)
(* hands the promise to a thread running accumulate_func, and waits for    *)
(* the sum in future.get(); then the same with a promise<void> as a        *)
(* barrier, set by barrier_demo.  The demonstration uses {1, 2, 3, 4, 5};  *)
(* here the vector is an input: n consecutive ints from 1 + d on.          *)
(***************************************************************************)
PromiseLen == 5    \* length of vec: 0..PromiseLen
PromiseShift == 2  \* first element of vec: 1..(1 + PromiseShift)

\* The shared state of a promise and its future.
NoShared == [ready |-> FALSE, value |-> 0, sets |-> 0]

\* future.get() / future.wait() return once the shared state is ready.
Ready_Always(st) == TRUE
Ready(st) == st.ready

\* promise.set_value(v): stores the value and makes the state ready.
SetValue(st, v) == [ready |-> TRUE, value |-> v, sets |-> st.sets + 1]

PrInit ==
    /\ prog = "cpp11"
    /\ RunnerInit
    /\ GenStart
    /\ \E n \in 0..PromiseLen, d \in 0..PromiseShift :
         demo = [pc |-> "promise0", vec |-> [k \in 1..n |-> k + d],
                 acc |-> NoShared, bar |-> NoShared,
                 w0 |-> [pc |-> "none", i |-> 1, sum |-> 0],
                 w1 |-> [pc |-> "none"],
                 got |-> 0, verdict |-> NoSignal]

\* std::promise<int> accumulate_promise;
\* std::future<int> accumulate_future = accumulate_promise.get_future();
PrPromise0 ==
    /\ demo.pc = "promise0"
    /\ demo' = [demo EXCEPT !.acc = NoShared, !.pc = "spawn0"]
    /\ UNCHANGED runnerVars
    /\ UNCHANGED genVars

\* std::thread t0(accumulate_func, vec.begin(), vec.end(), std::move(...));
PrSpawn0 ==
    /\ demo.pc = "spawn0"
    /\ demo' = [demo EXCEPT !.w0.pc = "accumulate", !.pc = "get0"]
    /\ UNCHANGED runnerVars
    /\ UNCHANGED genVars

\* int sum = std::accumulate(begin, end, 0);  one element per step.
PrAccumulate ==
    /\ demo.w0.pc = "accumulate"
    /\ demo' = IF demo.w0.i <= Len(demo.vec)
                 THEN [demo EXCEPT !.w0.sum = @ + demo.vec[demo.w0.i],
                                   !.w0.i = @ + 1]
                 ELSE [demo EXCEPT !.w0.pc = "set"]
    /\ UNCHANGED runnerVars
    /\ UNCHANGED genVars

\* accumulate_promise.set_value(sum);
PrSet0 ==
    /\ demo.w0.pc = "set"
    /\ demo' = [demo EXCEPT !.acc = SetValue(@, demo.w0.sum), !.w0.pc = "exit"]
    /\ UNCHANGED runnerVars
    /\ UNCHANGED genVars

\* accumulate_func returns and its thread ends.
PrExit0 ==
    /\ demo.w0.pc = "exit"
    /\ demo' = [demo EXCEPT !.w0.pc = "ended"]
    /\ UNCHANGED runnerVars
    /\ UNCHANGED genVars

\* accumulate_future.get()
PrGet0 ==
    /\ demo.pc = "get0"
    /\ Ready(demo.acc)
    /\ demo' = [demo EXCEPT !.got = demo.acc.value, !.pc = "assert0"]
    /\ UNCHANGED runnerVars
    /\ UNCHANGED genVars

\* ASSERT_EQ(accumulate_future.get(), 15);  when it raises, t0 is destroyed
\* while joinable on the way out: std::terminate.
PrAssert0 ==
    /\ demo.pc = "assert0"
    /\ LET v == ASSERT_EQ(demo.got, 15, File(prog), 913)
       IN  demo' = [demo EXCEPT
                      !.verdict = v,
                      !.pc = IF v = NoSignal THEN "join0" ELSE "terminated"]
    /\ UNCHANGED runnerVars
    /\ UNCHANGED genVars

\* t0.join();
PrJoin0 ==
    /\ demo.pc = "join0"
    /\ demo.w0.pc = "ended"
    /\ demo' = [demo EXCEPT !.pc = "promise1"]
    /\ UNCHANGED runnerVars
    /\ UNCHANGED genVars

\* std::promise<void> barrier_promise;
\* std::future<void> barrier_future = barrier_promise.get_future();
PrPromise1 ==
    /\ demo.pc = "promise1"
    /\ demo' = [demo EXCEPT !.bar = NoShared, !.pc = "spawn1"]
    /\ UNCHANGED runnerVars
    /\ UNCHANGED genVars

\* std::thread t1(barrier_demo, std::move(barrier_promise));
PrSpawn1 ==
    /\ demo.pc = "spawn1"
    /\ demo' = [demo EXCEPT !.w1.pc = "sleep", !.pc = "wait1"]
    /\ UNCHANGED runnerVars
    /\ UNCHANGED genVars

\* std::this_thread::sleep_for(std::chrono::milliseconds(50));
PrSleep1 ==
    /\ demo.w1.pc = "sleep"
    /\ demo' = [demo EXCEPT !.w1.pc = "set"]
    /\ UNCHANGED runnerVars
    /\ UNCHANGED genVars

\* barrier_promise.set_value();
PrSet1 ==
    /\ demo.w1.pc = "set"
    /\ demo' = [demo EXCEPT !.bar = SetValue(@, 0), !.w1.pc = "exit"]
    /\ UNCHANGED runnerVars
    /\ UNCHANGED genVars

\* barrier_demo returns and its thread ends.
PrExit1 ==
    /\ demo.w1.pc = "exit"
    /\ demo' = [demo EXCEPT !.w1.pc = "ended"]
    /\ UNCHANGED runnerVars
    /\ UNCHANGED genVars

\* barrier_future.wait();
PrWait1 ==
    /\ demo.pc = "wait1"
    /\ Ready(demo.bar)
    /\ demo' = [demo EXCEPT !.pc = "join1"]
    /\ UNCHANGED runnerVars
    /\ UNCHANGED genVars

\* t1.join();
PrJoin1 ==
    /\ demo.pc = "join1"
    /\ demo.w1.pc = "ended"
    /\ demo' = [demo EXCEPT !.pc = "done"]
    /\ UNCHANGED runnerVars
    /\ UNCHANGED genVars

PrNext ==
    \/ PrPromise0
    \/ PrSpawn0
    \/ PrAccumulate
    \/ PrSet0
    \/ PrExit0
    \/ PrGet0
    \/ PrAssert0
    \/ PrJoin0
    \/ PrPromise1
    \/ PrSpawn1
    \/ PrSleep1
    \/ PrSet1
    \/ PrExit1
    \/ PrWait1
    \/ PrJoin1

PromiseSpec == PrInit /\ [][PrNext]_vars

\* Threads that can run are scheduled: a step that stays possible is taken.
PromiseFairSpec == PromiseSpec /\ WF_vars(PrNext)

(***************************************************************************)
(* C24.  In test_std_promise, under every interleaving, future.get()       *)
(* returns only after the worker has called set_value, and returns the sum *)
(* the worker computed (15 for {1, 2, 3, 4, 5}); barrier_future.wait()     *)
(* returns only after barrier_demo has called set_value; each promise is   *)
(* set exactly once; and both waits eventually return.                     *)
(***************************************************************************)
RECURSIVE SumSeq(_)
SumSeq(s) == IF s = <<>> THEN 0 ELSE Head(s) + SumSeq(Tail(s))

PastGet0 == demo.pc \notin {"promise0", "spawn0", "get0"}
PastWait1 == demo.pc \in {"join1", "done"}

C24_PromiseHandOver ==
    /\ [](/\ demo.acc.sets <= 1
          /\ demo.bar.sets <= 1
          /\ PastGet0 =>
               /\ demo.acc.sets = 1
               /\ demo.w0.pc \in {"exit", "ended"}
               /\ demo.got = SumSeq(demo.vec)
               /\ demo.got = demo.w0.sum
          /\ PastWait1 =>
               /\ demo.bar.sets = 1
               /\ demo.w1.pc \in {"exit", "ended"}
          /\ (PastGet0 /\ demo.vec = <<1, 2, 3, 4, 5>>) => demo.got = 15
          /\ (demo.pc = "done" /\ demo.vec = <<1, 2, 3, 4, 5>>) =>
               demo.verdict = NoSignal)
    /\ (demo.pc = "get0") ~> (demo.pc = "assert0")
    /\ (demo.pc = "wait1") ~> (demo.pc = "join1")

\* The demonstration's own run, ended: 15 was handed over and both threads
\* were joined.
C24_Witness ==
    /\ demo.pc = "done"
    /\ demo.vec = <<1, 2, 3, 4, 5>>
    /\ demo.got = 15
    /\ demo.acc.sets = 1
    /\ demo.bar.sets = 1
    /\ demo.verdict = NoSignal

(***************************************************************************)
(* test_std_async_future (cpp11.cpp): return_a_thousand is launched three  *)
(* times by std::async, with the policies async, deferred and              *)
(* deferred | async (the implementation picks one of the two), and main    *)
(* calls get() on the three futures in turn.                               *)
(***************************************************************************)
return_a_thousand == 1000

Handles == 0..2
Policy(i) == CASE i = 0 -> "async" [] i = 1 -> "deferred" [] OTHER -> "any"
\* The ways the implementation may run a task launched with policy p.
Modes(p) == IF p = "any" THEN {"async", "deferred"} ELSE {p}

NoTask ==
    [mode |-> "none", pc |-> "none", ready |-> FALSE, runs |-> 0, value |-> 0]

\* std::async(policy, f): an async task gets a thread of its own at once, a
\* deferred one is stored in the future's shared state.
Launch_Eager(mode) ==
    [mode |-> mode, pc |-> "created", ready |-> FALSE, runs |-> 0, value |-> 0]

Launch(mode) ==
    [mode |-> mode, pc |-> IF mode = "async" THEN "created" ELSE "deferred",
     ready |-> FALSE, runs |-> 0, value |-> 0]

\* The task's function is called and returns its result.
RunTask(t) ==
    [t EXCEPT !.pc = "store", !.runs = @ + 1, !.value = return_a_thousand]

\* The result is stored in the shared state, which becomes ready.
StoreResult(t) ==
    [t EXCEPT !.pc = IF t.mode = "async" THEN "exit" ELSE "ended",
              !.ready = TRUE]

AfInit ==
    /\ prog = "cpp11"
    /\ RunnerInit
    /\ GenStart
    /\ demo = [pc |-> "launch", i |-> 0, tasks |-> [h \in Handles |-> NoTask],
               got |-> [h \in Handles |-> 0], verdict |-> NoSignal]

\* auto handleN = std::async(policy, return_a_thousand);
AfLaunch ==
    /\ demo.pc = "launch"
    /\ \E mode \in Modes(Policy(demo.i)) :
         demo' = [demo EXCEPT
                    !.tasks[demo.i] = Launch(mode),
                    !.i = IF demo.i = 2 THEN 0 ELSE demo.i + 1,
                    !.pc = IF demo.i = 2 THEN "get" ELSE "launch"]
    /\ UNCHANGED runnerVars
    /\ UNCHANGED genVars

\* The thread of an async task begins to run.
AfTaskStart(h) ==
    /\ demo.tasks[h].pc = "created"
    /\ demo' = [demo EXCEPT !.tasks[h].pc = "work"]
    /\ UNCHANGED runnerVars
    /\ UNCHANGED genVars

\* return_a_thousand() on the task's thread.
AfTaskWork(h) ==
    /\ demo.tasks[h].pc = "work"
    /\ demo' = [demo EXCEPT !.tasks[h] = RunTask(@)]
    /\ UNCHANGED runnerVars
    /\ UNCHANGED genVars

\* The result of an async task is stored.
AfTaskStore(h) ==
    /\ demo.tasks[h].pc = "store"
    /\ demo.tasks[h].mode = "async"
    /\ demo' = [demo EXCEPT !.tasks[h] = StoreResult(@)]
    /\ UNCHANGED runnerVars
    /\ UNCHANGED genVars

\* The thread of an async task ends.
AfTaskExit(h) ==
    /\ demo.tasks[h].pc = "exit"
    /\ demo' = [demo EXCEPT !.tasks[h].pc = "ended"]
    /\ UNCHANGED runnerVars
    /\ UNCHANGED genVars

\* handleN.get() on a deferred task: the function is called now, on the
\* calling thread.
AfGetDeferred ==
    /\ demo.pc = "get"
    /\ demo.tasks[demo.i].pc = "deferred"
    /\ demo' = [demo EXCEPT !.tasks[demo.i].pc = "inline", !.pc = "inline"]
    /\ UNCHANGED runnerVars
    /\ UNCHANGED genVars

\* return_a_thousand() inside get().
AfInline ==
    /\ demo.pc = "inline"
    /\ demo' = [demo EXCEPT !.tasks[demo.i] = RunTask(@), !.pc = "stored"]
    /\ UNCHANGED runnerVars
    /\ UNCHANGED genVars

\* The result of the deferred task is stored, still inside get().
AfInlineStore ==
    /\ demo.pc = "stored"
    /\ demo' = [demo EXCEPT !.tasks[demo.i] = StoreResult(@), !.pc = "get"]
    /\ UNCHANGED runnerVars
    /\ UNCHANGED genVars

\* handleN.get() returns the stored result once the shared state is ready.
AfGetReturn ==
    /\ demo.pc = "get"
    /\ demo.tasks[demo.i].ready
    /\ demo' = [demo EXCEPT !.got[demo.i] = demo.tasks[demo.i].value,
                            !.pc = "assert"]
    /\ UNCHANGED runnerVars
    /\ UNCHANGED genVars

\* ASSERT_EQ(handleN.get(), 1000);
AfAssert ==
    /\ demo.pc = "assert"
    /\ LET v == ASSERT_EQ(demo.got[demo.i], 1000, File(prog), 884 + demo.i)
       IN  demo' = [demo EXCEPT
                      !.verdict = v,
                      !.i = IF v = NoSignal /\ demo.i < 2 THEN demo.i + 1 ELSE @,
                      !.pc = IF v = NoSignal /\ demo.i < 2 THEN "get" ELSE "done"]
    /\ UNCHANGED runnerVars
    /\ UNCHANGED genVars

AfNext ==
    \/ AfLaunch
    \/ \E h \in Handles : AfTaskStart(h)
    \/ \E h \in Handles : AfTaskWork(h)
    \/ \E h \in Handles : AfTaskStore(h)
    \/ \E h \in Handles : AfTaskExit(h)
    \/ AfGetDeferred
    \/ AfInline
    \/ AfInlineStore
    \/ AfGetReturn
    \/ AfAssert

AsyncSpec == AfInit /\ [][AfNext]_vars

(***************************************************************************)
(* C25.  In test_std_async_future, get() on each of the three futures      *)
(* returns 1000, whatever the launch policy and the scheduling; a deferred *)
(* task does not run before its get() is called, and then runs exactly     *)
(* once.                                                                   *)
(***************************************************************************)
\* main has called get() on handle h.
GetCalled(h) ==
    \/ demo.pc = "done"
    \/ demo.pc \in {"get", "inline", "stored", "assert"} /\ demo.i >= h
\* get() on handle h has returned.
GetReturned(h) ==
    \/ demo.pc = "done" /\ (demo.i > h \/ demo.verdict = NoSignal)
    \/ demo.pc = "assert" /\ demo.i >= h
    \/ demo.pc \in {"get", "inline", "stored"} /\ demo.i > h

C25_AsyncGet ==
    \A h \in Handles :
      /\ demo.tasks[h].runs <= 1
      /\ demo.tasks[h].mode \in Modes(Policy(h)) \cup {"none"}
      /\ GetReturned(h) =>
           /\ demo.got[h] = 1000
           /\ demo.tasks[h].runs = 1
      /\ demo.tasks[h].mode = "deferred" =>
           /\ ~GetCalled(h) =>
                /\ demo.tasks[h].runs = 0
                /\ demo.tasks[h].pc = "deferred"
           /\ demo.tasks[h].pc \in {"deferred", "inline", "store", "ended"}
      /\ demo.pc = "done" => demo.verdict = NoSignal /\ demo.i = 2

\* All three results compared, the third task having been run deferred
\* while the first ran on its thread.
C25_Witness ==
    /\ demo.pc = "done"
    /\ demo.tasks[0].mode = "async"
    /\ demo.tasks[1].mode = "deferred"
    /\ demo.tasks[2].mode = "deferred"
    /\ \A h \in Handles : demo.got[h] = 1000 /\ demo.tasks[h].runs = 1
    /\ demo.verdict = NoSignal

(***************************************************************************)
(* ObjA (cpp11.cpp): a string s and last_op, which every constructor and   *)
(* assignment operator sets in the object it constructs or assigns to.     *)
(* A client constructs, copies, moves and forwards a few objects in any    *)
(* order.  The build (g++) elides the copy of a returned prvalue, so       *)
(* make_A_by_forwarding's  return ObjA{...}  constructs its result in      *)
(* place.                                                                  *)
(***************************************************************************)
ObjMaxOps == 3     \* operations of one behaviour

ObjNames == {"a0", "a1", "a2"}
ObjStrings == {"dummy0", "dummy1"}
NoObj == [alive |-> FALSE, s |-> "", last_op |-> ""]

\* ObjA(std::string arg) : s(arg) { last_op = "normal-construct"; }
NormalConstruct(arg) ==
    [alive |-> TRUE, s |-> arg, last_op |-> "normal-construct"]
\* ObjA(const ObjA &o) : s(o.s) { last_op = "copy-construct"; }
CopyConstruct(o) == [alive |-> TRUE, s |-> o.s, last_op |-> "copy-construct"]
\* ObjA &operator=(const ObjA &o)
CopyAssign(o) == [alive |-> TRUE, s |-> o.s, last_op |-> "copy-assignment"]
\* ObjA(ObjA &&o) : s(std::move(o.s)) { last_op = "move-construct"; }
MoveConstruct(o) == [alive |-> TRUE, s |-> o.s, last_op |-> "move-construct"]
\* ObjA &operator=(ObjA &&o)
MoveAssign(o) == [alive |-> TRUE, s |-> o.s, last_op |-> "move-assignment"]

\* std::move(o.s): what a move may leave of its source; the string is valid
\* but unspecified (empty, or as it was), nothing else of o is touched.
MovedFromObj_Tagged(o) == {[o EXCEPT !.s = "", !.last_op = "moved-from"]}
MovedFromObj(o) == {[o EXCEPT !.s = x] : x \in {"", o.s}}

\* std::forward<T>(a) in make_A_by_forwarding(T &&a): an lvalue argument is
\* passed on as an lvalue (T = ObjA&), an rvalue as an rvalue.
Forward_AlwaysRvalue(category) == "rvalue"
Forward(category) == category

NoObjOp == [op |-> "none", dst |-> "", src |-> "", srcOp |-> "", arg |-> ""]

ObInit ==
    /\ prog = "cpp11"
    /\ RunnerInit
    /\ GenStart
    /\ demo = [pc |-> "client", n |-> 0, objs |-> [o \in ObjNames |-> NoObj],
               dstOp |-> [o \in ObjNames |-> ""], last |-> NoObjOp]

\* The bookkeeping of one operation: what was done, to which object, from
\* which, and what the source's last_op was before.
ObDone(op, d, s, arg) ==
    [op |-> op, dst |-> d, src |-> s,
     srcOp |-> IF s = "" THEN "" ELSE demo.objs[s].last_op, arg |-> arg]

\* ObjA d(arg);
ObNormal(d, arg) ==
    /\ demo.n < ObjMaxOps
    /\ ~demo.objs[d].alive
    /\ demo' = [demo EXCEPT !.n = @ + 1,
                            !.objs[d] = NormalConstruct(arg),
                            !.dstOp[d] = "normal-construct",
                            !.last = ObDone("normal-construct", d, "", arg)]
    /\ UNCHANGED runnerVars
    /\ UNCHANGED genVars

\* ObjA d = s;
ObCopyCtor(d, s) ==
    /\ demo.n < ObjMaxOps
    /\ ~demo.objs[d].alive
    /\ demo.objs[s].alive
    /\ demo' = [demo EXCEPT !.n = @ + 1,
                            !.objs[d] = CopyConstruct(demo.objs[s]),
                            !.dstOp[d] = "copy-construct",
                            !.last = ObDone("copy-construct", d, s, "")]
    /\ UNCHANGED runnerVars
    /\ UNCHANGED genVars

\* d = s;
ObCopyAssign(d, s) ==
    /\ demo.n < ObjMaxOps
    /\ demo.objs[d].alive
    /\ demo.objs[s].alive
    /\ demo' = [demo EXCEPT !.n = @ + 1,
                            !.objs[d] = CopyAssign(demo.objs[s]),
                            !.dstOp[d] = "copy-assignment",
                            !.last = ObDone("copy-assignment", d, s, "")]
    /\ UNCHANGED runnerVars
    /\ UNCHANGED genVars

\* ObjA d = std::move(s);
ObMoveCtor(d, s) ==
    /\ demo.n < ObjMaxOps
    /\ ~demo.objs[d].alive
    /\ demo.objs[s].alive
    /\ \E left \in MovedFromObj(demo.objs[s]) :
         demo' = [demo EXCEPT !.n = @ + 1,
                              !.objs = [@ EXCEPT ![s] = left,
                                                 ![d] = MoveConstruct(demo.objs[s])],
                              !.dstOp[d] = "move-construct",
                              !.last = ObDone("move-construct", d, s, "")]
    /\ UNCHANGED runnerVars
    /\ UNCHANGED genVars

\* d = std::move(s);  (d may be s: the object is then both, and a string
\* moved into itself is left valid but unspecified)
ObMoveAssign(d, s) ==
    /\ demo.n < ObjMaxOps
    /\ demo.objs[d].alive
    /\ demo.objs[s].alive
    /\ \E left \in MovedFromObj(demo.objs[s]) :
         demo' = [demo EXCEPT
                    !.n = @ + 1,
                    !.objs = IF d = s
                               THEN [@ EXCEPT ![d] = MoveAssign(left)]
                               ELSE [@ EXCEPT ![s] = left,
                                              ![d] = MoveAssign(demo.objs[s])],
                    !.dstOp[d] = "move-assignment",
                    !.last = ObDone("move-assignment", d, s, "")]
    /\ UNCHANGED runnerVars
    /\ UNCHANGED genVars

\* ObjA d = make_A_by_forwarding(s);             (category "lvalue")
\* ObjA d = make_A_by_forwarding(std::move(s));  (category "rvalue")
\* return ObjA{std::forward<T>(a)};
ObForward(d, s, category) ==
    /\ demo.n < ObjMaxOps
    /\ ~demo.objs[d].alive
    /\ demo.objs[s].alive
    /\ IF Forward(category) = "lvalue"
         THEN demo' = [demo EXCEPT
                         !.n = @ + 1,
                         !.objs[d] = CopyConstruct(demo.objs[s]),
                         !.dstOp[d] = "copy-construct",
                         !.last = ObDone("forward", d, s, category)]
         ELSE \E left \in MovedFromObj(demo.objs[s]) :
                demo' = [demo EXCEPT
                           !.n = @ + 1,
                           !.objs = [@ EXCEPT ![s] = left,
                                              ![d] = MoveConstruct(demo.objs[s])],
                           !.dstOp[d] = "move-construct",
                           !.last = ObDone("forward", d, s, category)]
    /\ UNCHANGED runnerVars
    /\ UNCHANGED genVars

ObNext ==
    \/ \E d \in ObjNames, arg \in ObjStrings : ObNormal(d, arg)
    \/ \E d \in ObjNames, s \in ObjNames : ObCopyCtor(d, s)
    \/ \E d \in ObjNames, s \in ObjNames : ObCopyAssign(d, s)
    \/ \E d \in ObjNames, s \in ObjNames : ObMoveCtor(d, s)
    \/ \E d \in ObjNames, s \in ObjNames : ObMoveAssign(d, s)
    \/ \E d \in ObjNames, s \in ObjNames, c \in {"lvalue", "rvalue"} :
         ObForward(d, s, c)

ObjSpec == ObInit /\ [][ObNext]_vars

(***************************************************************************)
(* C26.  An ObjA's last_op always names the most recent operation in which *)
(* that object was the destination (normal-construct, copy-construct,      *)
(* copy-assignment, move-construct, move-assignment); being the source of  *)
(* a copy or of a move leaves the source's last_op unchanged; and          *)
(* make_A_by_forwarding copy-constructs from an lvalue argument and        *)
(* move-constructs from an rvalue argument.                                *)
(***************************************************************************)
C26_LastOp ==
    /\ \A o \in ObjNames :
         /\ demo.objs[o].alive <=> demo.dstOp[o] # ""
         /\ demo.objs[o].alive => demo.objs[o].last_op = demo.dstOp[o]
    /\ (demo.last.src # "" /\ demo.last.src # demo.last.dst) =>
         demo.objs[demo.last.src].last_op = demo.last.srcOp
    /\ (demo.last.op \notin {"none", "forward"}) =>
         demo.objs[demo.last.dst].last_op = demo.last.op
    /\ demo.last.op = "forward" =>
         demo.objs[demo.last.dst].last_op =
           IF demo.last.arg = "lvalue" THEN "copy-construct" ELSE "move-construct"

\* test_std_forward: a0 constructed, a1 made by forwarding a0, a2 by
\* forwarding std::move(a0); a0 is still "normal-construct".
C26_Witness ==
    /\ demo.last.op = "forward"
    /\ demo.last.arg = "rvalue"
    /\ demo.last.src = "a0"
    /\ demo.objs["a0"].last_op = "normal-construct"
    /\ demo.objs["a1"].last_op = "copy-construct"
    /\ demo.objs["a2"].last_op = "move-construct"
    /\ demo.objs["a1"].s = "dummy0"
    /\ demo.objs["a2"].s = "dummy0"

(***************************************************************************)
(* test_lambda_capture_initializers (cpp14.cpp): a mutable lambda whose    *)
(* state x is initialised by the capture  [x = times_10(j)]  and handed    *)
(* out and incremented by every call.  j's first value and the value it is *)
(* given after the lambda's creation are inputs (1 and 2 in the source).   *)
(***************************************************************************)
LamJMax == 4     \* j ranges over 0..LamJMax

\* int times_10(int i) { return 10 * i; }
times_10(i) == 10 * i

\* [x = times_10(j)] () mutable { return x++; }: the value returned and the
\* state left behind.
Generator_PreIncrement(x) == [ret |-> x + 1, x |-> x + 1]
Generator(x) == [ret |-> x, x |-> x + 1]

\* int j = 1;
LcInit ==
    /\ prog = "cpp14"
    /\ RunnerInit
    /\ GenStart
    /\ \E j \in 0..LamJMax :
         demo = [pc |-> "create", j |-> j, j0 |-> j, x |-> 0, rets |-> <<>>,
                 i |-> 1, verdict |-> NoSignal, p |-> "null", captured |-> "none"]

\* auto generator = [x = times_10(j)] () mutable { ... };
LcCreate ==
    /\ demo.pc = "create"
    /\ demo' = [demo EXCEPT !.x = times_10(demo.j), !.pc = "assign"]
    /\ UNCHANGED runnerVars
    /\ UNCHANGED genVars

\* j = 2;
LcAssign ==
    /\ demo.pc = "assign"
    /\ \E j \in 0..LamJMax : demo' = [demo EXCEPT !.j = j, !.pc = "call"]
    /\ UNCHANGED runnerVars
    /\ UNCHANGED genVars

\* auto a = generator(); auto b = generator(); auto c = generator();
LcCall ==
    /\ demo.pc = "call"
    /\ LET r == Generator(demo.x)
       IN  demo' = [demo EXCEPT
                      !.x = r.x,
                      !.rets = Append(@, r.ret),
                      !.pc = IF Len(demo.rets) = 2 THEN "assert" ELSE "call"]
    /\ UNCHANGED runnerVars
    /\ UNCHANGED genVars

\* ASSERT_EQ(a, 10); ASSERT_EQ(b, 11); ASSERT_EQ(c, 12);
LcAssert ==
    /\ demo.pc = "assert"
    /\ LET v == ASSERT_EQ(demo.rets[demo.i], <<10, 11, 12>>[demo.i],
                          File(prog), 48 + demo.i)
       IN  demo' = [demo EXCEPT
                      !.verdict = v,
                      !.i = IF v = NoSignal THEN @ + 1 ELSE @,
                      !.pc = IF v # NoSignal THEN "failed"
                             ELSE IF demo.i = 3 THEN "unique" ELSE "assert"]
    /\ UNCHANGED runnerVars
    /\ UNCHANGED genVars

\* auto p = std::make_unique<int>(7);
\* auto take_unique = [p = std::move(p)] { *p = 5; };  take_unique();
LcUnique ==
    /\ demo.pc \in {"unique", "taken"}
    /\ demo' = IF demo.pc = "unique"
                 THEN [demo EXCEPT !.captured = 7, !.pc = "taken"]
                 ELSE [demo EXCEPT !.captured = 5, !.pc = "done"]
    /\ UNCHANGED runnerVars
    /\ UNCHANGED genVars

LcNext ==
    \/ LcCreate
    \/ LcAssign
    \/ LcCall
    \/ LcAssert
    \/ LcUnique

LambdaSpec == LcInit /\ [][LcNext]_vars

(***************************************************************************)
(* C27.  The init-capture lambda generator fixes its state                 *)
(* x = times_10(j) when the lambda is created: changing j afterwards has   *)
(* no effect, and the k-th call (k = 1, 2, 3) returns 10*j0 + (k-1),       *)
(* where j0 is j's value at creation; these are 10, 11, 12 for j0 = 1,     *)
(* whatever j was changed to, and the three assertions then pass.          *)
(***************************************************************************)
C27_InitCapture ==
    /\ demo.pc # "create" => demo.x = 10 * demo.j0 + Len(demo.rets)
    /\ \A k \in 1..Len(demo.rets) : demo.rets[k] = 10 * demo.j0 + (k - 1)
    /\ (demo.j0 = 1 /\ Len(demo.rets) = 3) => demo.rets = <<10, 11, 12>>
    /\ (demo.j0 = 1) => demo.verdict = NoSignal
    /\ demo.pc \in {"unique", "taken", "done"} => demo.j0 = 1

\* j was 1 at creation and 2 afterwards; the three calls returned 10, 11,
\* 12 and the assertions passed.
C27_Witness ==
    /\ demo.j0 = 1
    /\ demo.j = 2
    /\ demo.rets = <<10, 11, 12>>
    /\ demo.x = 13
    /\ demo.pc = "unique"

(***************************************************************************)
(* set_zero_then_sum and test_std_span (cpp20.cpp): the function is called *)
(* on a span over a first container and then on a span over a second one;  *)
(* a span refers to the container's own elements.  The containers are      *)
(* inputs: the source's vec{1, 2, 3} and arr{4, 5, 6, 7, 8} among them.    *)
(***************************************************************************)
SpanLen == 3     \* longest first container drawn from all sequences
SpanVal == 3     \* its elements range over 0..SpanVal

SpanFirsts ==
    UNION {[1..n -> 0..SpanVal] : n \in 0..SpanLen} \cup {<<1, 2, 3>>}
SpanSeconds == {<<>>, <<7>>, <<4, 5, 6, 7, 8>>}

\* if (!span.empty()) span[0] = 0;
ZeroFirst_None(span) == span
ZeroFirst(span) == IF Len(span) = 0 THEN span ELSE [span EXCEPT ![1] = 0]

\* std::vector<int> vec{...}; std::array<int, N> arr{...}; and the entry of
\* the first call.
SzInit ==
    /\ prog = "cpp20"
    /\ RunnerInit
    /\ GenStart
    /\ \E vec \in SpanFirsts, arr \in SpanSeconds :
         demo = [pc |-> "test", n |-> 1, c |-> <<vec, arr>>,
                 orig |-> <<vec, arr>>, i |-> 0, sum |-> 0,
                 sums |-> <<>>, verdict |-> NoSignal]

\* if (!span.empty()) span[0] = 0;  int sum = 0;
SzZero ==
    /\ demo.pc = "test"
    /\ demo' = [demo EXCEPT !.c[demo.n] = ZeroFirst(@), !.sum = 0, !.i = 1,
                            !.pc = "each"]
    /\ UNCHANGED runnerVars
    /\ UNCHANGED genVars

\* std::for_each(span.begin(), span.end(), [&](auto &v) { sum += v; });
SzEach ==
    /\ demo.pc = "each"
    /\ demo' = IF demo.i <= Len(demo.c[demo.n])
                 THEN [demo EXCEPT !.sum = @ + demo.c[demo.n][demo.i],
                                   !.i = @ + 1]
                 ELSE [demo EXCEPT !.pc = "return"]
    /\ UNCHANGED runnerVars
    /\ UNCHANGED genVars

\* return sum;  into sum0, then the second call, or into sum1.
SzReturn ==
    /\ demo.pc = "return"
    /\ demo' = [demo EXCEPT !.sums = Append(@, demo.sum),
                            !.n = @ + 1,
                            !.pc = IF demo.n = 1 THEN "test" ELSE "assert"]
    /\ UNCHANGED runnerVars
    /\ UNCHANGED genVars

\* ASSERT_EQ(sum0, 5); ASSERT_EQ(sum1, 26);
SzAssert ==
    /\ demo.pc \in {"assert", "assert1"}
    /\ LET v == IF demo.pc = "assert"
                  THEN ASSERT_EQ(demo.sums[1], 5, File(prog), 305)
                  ELSE ASSERT_EQ(demo.sums[2], 26, File(prog), 306)
       IN  demo' = [demo EXCEPT
                      !.verdict = v,
                      !.pc = IF v # NoSignal THEN "failed"
                             ELSE IF demo.pc = "assert" THEN "assert1"
                             ELSE "done"]
    /\ UNCHANGED runnerVars
    /\ UNCHANGED genVars

SzNext ==
    \/ SzZero
    \/ SzEach
    \/ SzReturn
    \/ SzAssert

SpanSpec == SzInit /\ [][SzNext]_vars

(***************************************************************************)
(* C28.  set_zero_then_sum(span) overwrites the first element of the       *)
(* underlying container with 0 when the span is non-empty and returns the  *)
(* sum of all elements after that write (the sum of the elements after the *)
(* first), leaving every other element unchanged; for an empty span it     *)
(* writes nothing and returns 0.  For vec{1, 2, 3} and arr{4, 5, 6, 7, 8}  *)
(* the results are 5 and 26.                                               *)
(***************************************************************************)
C28_SetZeroThenSum ==
    \A n \in 1..2 :
      LET o == demo.orig[n]
          c == demo.c[n]
      IN  /\ Len(demo.sums) < n /\ ~(demo.n = n /\ demo.pc # "test") => c = o
          /\ Len(demo.sums) >= n =>
               /\ Len(c) = Len(o)
               /\ o = <<>> => c = <<>> /\ demo.sums[n] = 0
               /\ o # <<>> =>
                    /\ c[1] = 0
                    /\ \A k \in 2..Len(o) : c[k] = o[k]
                    /\ demo.sums[n] = SumSeq(Tail(o))
                    /\ demo.sums[n] = SumSeq(c)
          /\ (demo.orig = <<(<<1, 2, 3>>), (<<4, 5, 6, 7, 8>>)>>) =>
               /\ Len(demo.sums) = 2 => demo.sums = <<5, 26>>
               /\ demo.verdict = NoSignal

\* test_std_span's own containers: both calls returned, vec is {0, 2, 3},
\* arr is {0, 5, 6, 7, 8}, and both assertions passed.
C28_Witness ==
    /\ demo.orig = <<(<<1, 2, 3>>), (<<4, 5, 6, 7, 8>>)>>
    /\ demo.c = <<(<<0, 2, 3>>), (<<0, 5, 6, 7, 8>>)>>
    /\ demo.sums = <<5, 26>>
    /\ demo.pc = "done"

(***************************************************************************)
(* factorial and test_constexpr_funcs (cpp14.cpp).  The recursion is run   *)
(* call by call: stack holds the n of every activation waiting for         *)
(* factorial(n - 1).  The argument is an input; the source calls           *)
(* factorial(5).                                                           *)
(***************************************************************************)
FacNeg == 2      \* arguments range over -FacNeg..FacMax
FacMax == 13

\* n * factorial(n - 1) in int, for 0 < a < 2^15.  A product outside int is
\* undefined; the build (g++ -O3, no trapping) multiplies in two's
\* complement, so the one outcome it produces is the product modulo 2^32.
\* The product is formed from 16-bit halves of b.
MulOutcomes_Sum(a, b) == {a + b}
MulOutcomes(a, b) ==
    LET lo   == b % 65536
        hi   == (b - lo) \div 65536
        low  == (a * lo) % 65536
        high == a * hi + ((a * lo) \div 65536)
        kept == ((high + 32768) % 65536) - 32768
    IN  {kept * 65536 + low}

FcInit ==
    /\ prog = "cpp14"
    /\ RunnerInit
    /\ GenStart
    /\ \E n \in (0 - FacNeg)..FacMax :
         demo = [pc |-> "call", n |-> n, arg |-> n, stack |-> <<>>,
                 ret |-> 0, verdict |-> NoSignal]

\* if (n <= 1) return 1; else ... factorial(n - 1)
FcCall ==
    /\ demo.pc = "call"
    /\ demo' = IF demo.arg <= 1
                 THEN [demo EXCEPT !.ret = 1, !.pc = "return"]
                 ELSE [demo EXCEPT !.stack = Append(@, demo.arg),
                                   !.arg = @ - 1]
    /\ UNCHANGED runnerVars
    /\ UNCHANGED genVars

\* return n * factorial(n - 1);  in the caller, or the outermost return.
FcReturn ==
    /\ demo.pc = "return"
    /\ IF demo.stack = <<>>
         THEN demo' = [demo EXCEPT !.pc = "returned"]
         ELSE \E v \in MulOutcomes(demo.stack[Len(demo.stack)], demo.ret) :
                demo' = [demo EXCEPT
                           !.ret = v,
                           !.stack = SubSeq(@, 1, Len(@) - 1)]
    /\ UNCHANGED runnerVars
    /\ UNCHANGED genVars

\* ASSERT_EQ(factorial(5), 120);
FcAssert ==
    /\ demo.pc = "returned"
    /\ demo.n = 5
    /\ LET v == ASSERT_EQ(demo.ret, 120, File(prog), 129)
       IN  demo' = [demo EXCEPT !.verdict = v,
                                !.pc = IF v = NoSignal THEN "done" ELSE "failed"]
    /\ UNCHANGED runnerVars
    /\ UNCHANGED genVars

FcNext ==
    \/ FcCall
    \/ FcReturn
    \/ FcAssert

FactSpec == FcInit /\ [][FcNext]_vars

\* A call that can take a step takes it.
FactFairSpec == FactSpec /\ WF_vars(FcNext)

\* n! for 0 <= n <= 12, as a product of 1..n.
RECURSIVE Fact(_)
Fact(n) == IF n <= 1 THEN 1 ELSE n * Fact(n - 1)

Returned == demo.pc \in {"returned", "done", "failed"}

(***************************************************************************)
(* C29.  factorial(n) terminates for every int n and returns 1 when        *)
(* n <= 1 and n * factorial(n - 1) = n! otherwise (120 for n = 5), as long *)
(* as n! fits in a 32-bit signed int (n <= 12).                            *)
(***************************************************************************)
C29_Factorial ==
    /\ [](/\ Len(demo.stack) <= IF demo.n <= 1 THEN 0 ELSE demo.n - 1
          /\ Returned =>
               /\ demo.n <= 1 => demo.ret = 1
               /\ (demo.n > 1 /\ demo.n <= 12) =>
                    /\ demo.ret = Fact(demo.n)
                    /\ demo.ret = demo.n * Fact(demo.n - 1)
               /\ demo.n = 5 => demo.ret = 120
               /\ demo.n = 12 => demo.ret = 479001600
          /\ demo.n = 5 => demo.verdict = NoSignal)
    /\ <>Returned

\* factorial(5) returned 120 and the assertion passed.
C29_Witness ==
    /\ demo.n = 5
    /\ demo.ret = 120
    /\ demo.pc = "done"

====
